---- MODULE Spec2Model ----
(***************************************************************************)
(* A model of one muxado session (muxado/src/session.rs): the reader task, *)
(* the writer task, the Open/Accept facade, the stream manager and the     *)
(* streams they serve, together with the transport and a peer that speaks  *)
(* the protocol on the other end of it.                                    *)
(*                                                                         *)
(* session.rs is modelled from its code.  The stream manager               *)
(* (stream_manager.rs), the streams (stream.rs) and the frames (frame.rs)  *)
(* are used by session.rs but their code is not part of the sources at     *)
(* hand: they are modelled from the specification (sections 3, 4.2, 4.3).  *)
(***************************************************************************)
EXTENDS Integers, Sequences, FiniteSets, TLC

(***************************************************************************)
(* Bounds of the model.                                                    *)
(***************************************************************************)
\* the largest stream id either endpoint allocates
MaxId == 3
\* the number of payload bytes each endpoint's application writes in total
MaxData == 2
\* the number of operations the applications, the peer and the transport
\* start (the tasks' reactions to them are not counted)
MaxOps == 3

(***************************************************************************)
(* The options of SessionBuilder the session is started with.              *)
(***************************************************************************)
window == 2
accept_queue_size == 1
stream_limit == 2

\* an id no endpoint ever allocates: frames on it are frames on an unknown id
StrayId == MaxId + 1

NoId == 0

(***************************************************************************)
(* Frames (frame.rs).                                                      *)
(***************************************************************************)
Fr(typ, id, syn, fin, data, val, err, msg) ==
    [typ |-> typ, id |-> id, syn |-> syn, fin |-> fin, data |-> data,
     val |-> val, err |-> err, msg |-> msg]

FrameData(id, syn, fin, data) == Fr("Data", id, syn, fin, data, 0, "None", "")

FrameWndInc(id, n) == Fr("WndInc", id, FALSE, FALSE, <<>>, n, "None", "")

FrameRst(id, err) == Fr("Rst", id, FALSE, FALSE, <<>>, 0, err, "")

FrameGoAway(last, err, msg) == Fr("GoAway", NoId, FALSE, FALSE, <<>>, last, err, msg)

FrameInvalid(id) == Fr("Invalid", id, FALSE, FALSE, <<>>, 0, "None", "")

NoFrame == Fr("None", NoId, FALSE, FALSE, <<>>, 0, "None", "")

\* the bytes a sender writes on a stream are numbered in the order written
Bytes(from, to) == [i \in 1..(to - from + 1) |-> from + i - 1]

IsPrefix(s, t) == Len(s) <= Len(t) /\ \A i \in 1..Len(s) : s[i] = t[i]

VARIABLES
    client,      \* SessionBuilder.client: the role of this endpoint
    manager,     \* the shared stream manager
    st,          \* the Stream objects created so far, by id
    acceptq,     \* the accept channel (accept_tx -> accept_rx)
    rpc,         \* where the reader task is
    rframe,      \* the frame the reader is handling while it waits
    last_stream_processed,
    wpc,         \* where the writer task is
    openpc,      \* where the caller of open() is; "dropped": the open half is gone
    openRes,     \* what the last open() returned
    acceptRes,   \* what the last accept() returned
    allocated,   \* the ids handed to local opens, in order
    wire_in,     \* frames in flight from the peer to this endpoint
    io_in,       \* the read half of the transport: "open", "eof" or "err"
    peer,        \* the peer's streams, its id counter, the ids it allocated
    budget,      \* what is left of MaxData and MaxOps
    accept_rx    \* the accept half (MuxadoAccept): "open" or "dropped"

\* the variables of the session
svars == <<client, manager, st, acceptq, rpc, rframe, last_stream_processed, wpc,
           openpc, openRes, acceptRes, allocated, wire_in, io_in, peer, budget,
           accept_rx>>

VARIABLES
    backlog,     \* outgoing multiplex: the frames each stream has ready to send
    win,         \* outgoing multiplex: the send window of each stream
    cursor,      \* outgoing multiplex: the stream the manager served last
    wrote        \* outgoing multiplex: the stream whose frame was just written

\* the variables of the outgoing multiplex under sustained load
muxvars == <<backlog, win, cursor, wrote>>

VARIABLES
    durations,   \* HeartbeatCtl.durations: the interval and the tolerance
    period,      \* the period the requester's ticker was created with
    ticker,      \* the time until the ticker's next tick (0: a tick is ready)
    deadline,    \* the time until the monitor's deadline (0: it has expired)
    rq_pc,       \* where the requester task is
    resp_chan,   \* the requester's resp_chan: "Some" or "None"
    rq_id,       \* the id of the heartbeat the requester wrote
    echo,        \* the id the peer wrote back on the heartbeat stream
    hb_io,       \* the heartbeat stream: "ok" or "err"
    on_demand,   \* the mailbox of beat() requests (dtx -> drx)
    ctl,         \* the HeartbeatCtl: "held" or "dropped"
    beat_pc,     \* where the caller of beat() is
    beat_res,    \* what the last beat() returned
    mark,        \* the latencies on their way to the monitor (mtx -> mrx)
    mon_pc,      \* where the monitor task is
    cb_last,     \* the argument of the last invocation of the callback
    beat_done    \* a beat() got its latency since the deadline was last set

\* the variables of the heartbeat tasks
hbvars == <<durations, period, ticker, deadline, rq_pc, resp_chan, rq_id, echo,
            hb_io, on_demand, ctl, beat_pc, beat_res, mark, mon_pc, cb_last,
            beat_done>>

VARIABLES
    inner,       \* the inner typed session: "open", or the error it fails with
    inbound,     \* the typed streams the inner session has yet to accept
    taken,       \* the streams inner.accept_typed() has yielded, in order
    responders,  \* the streams handed to start_responder, in order
    returned,    \* the streams Heartbeat::accept_typed has returned, in order
    acc_pc,      \* where the caller of Heartbeat::accept_typed is
    acc_res      \* what the last Heartbeat::accept_typed returned

VARIABLES
    halves,      \* "joined", or "split" after split_typed
    opened,      \* the streams opened on the inner session, in order
    open_typ,    \* the type the last Heartbeat::open_typed was called with
    open_res     \* what the last Heartbeat::open_typed returned

\* the variables of the Heartbeat wrapper's accept
accvars == <<inbound, taken, responders, returned, acc_pc, acc_res>>

\* the variables of the Heartbeat wrapper's open
openvars == <<halves, opened, open_typ, open_res>>

\* the variables of the Heartbeat wrapper
tvars == <<inner, accvars, openvars>>

VARIABLES
    ts_pc,       \* the opener of the typed stream: "none", "open"
    ts_typ,      \* the type open_typed was called with
    ts_sent,     \* the user bytes the opener has written
    ts_wire,     \* the bytes of the stream on their way to the accepter
    ts_buf,      \* the bytes of the stream that have arrived at the accepter
    ts_tag,      \* the bytes of the tag the accepter has read
    ts_apc,      \* the accepter: "tag" (in accept_typed), "open"
    ts_atyp,     \* the type recorded on the accepted handle
    ts_got       \* the user bytes the accepter has read

\* the variables of one typed stream
tsvars == <<ts_pc, ts_typ, ts_sent, ts_wire, ts_buf, ts_tag, ts_apc, ts_atyp,
            ts_got>>

VARIABLES
    heartbeat_interval,   \* SessionBuilder.heartbeat_interval: None or Some(d)
    heartbeat_tolerance,  \* SessionBuilder.heartbeat_tolerance: None or Some(d)
    connected             \* what the last SessionBuilder::connect came to

\* the variables of the ngrok SessionBuilder
bvars == <<heartbeat_interval, heartbeat_tolerance, connected>>

VARIABLES
    manager_lock,  \* who holds the stream manager's mutex: "none", "reader", "writer"
    reader_at,     \* the await point of the reader task in handle_frame / run
    reader_frame,  \* the frame handle_frame was called with
    writer_at,     \* the await point of the writer task in run
    accept_len,    \* the number of streams in the accept channel
    sys_len,       \* the number of frames in the system channel
    open_reqs,     \* the number of open requests the writer has yet to take
    replies,       \* the number of open requests the writer has answered
    io_ready,      \* whether the transport takes a frame now
    frames_left    \* the number of frames the peer has yet to send

\* the variables of the tasks around the stream manager's lock
lkvars == <<manager_lock, reader_at, reader_frame, writer_at, accept_len,
            sys_len, open_reqs, replies, io_ready, frames_left>>

VARIABLES
    rs_pc,       \* the responder task: "read", "write" or "done"
    rs_chunk,    \* the responder's buf after the read
    rs_sent,     \* the bytes the peer has written on the heartbeat stream
    rs_wire,     \* those of them still on their way to this endpoint
    rs_buf,      \* those of them buffered in the stream, not yet read
    rs_fin,      \* the peer has closed its side and the FIN has arrived
    rs_io,       \* the heartbeat stream: "ok" or "err"
    rs_out       \* the bytes the responder has written on the stream

\* the variables of one heartbeat responder
rsvars == <<rs_pc, rs_chunk, rs_sent, rs_wire, rs_buf, rs_fin, rs_io, rs_out>>

VARIABLES
    fc_todo,         \* the bytes of the write call in progress not yet sent
    fc_written,      \* the bytes the write calls have sent so far
    fc_send_window,  \* the sender's send_window
    fc_data,         \* the sizes of the DATA frames on their way to the receiver
    fc_buf,          \* the number of bytes in the receiver's buffer
    fc_drained,      \* the bytes read since the receiver's last WND_INC
    fc_incs          \* the amounts of the WND_INC frames on their way to the sender

\* the variables of the flow control of one stream
fcvars == <<fc_todo, fc_written, fc_send_window, fc_data, fc_buf, fc_drained,
            fc_incs>>

VARIABLES
    tunnels,       \* Session.tunnels: the ids whose sender is in the map
    tunnels_lock,  \* the RwLock of the map: "none", "read" or "write"
    incoming,      \* what incoming.accept() is going to return, in order
    accept_at,     \* the await point of the accept_incoming task
    accept_conn,   \* the id in the header of the connection it has accepted
    drain_todo,    \* the senders drain() has yet to yield, in its order
    drain_set,       \* the ids that were in the map when drain() took it
    chan,          \* the channel of each tunnel: the messages not yet received
    rx_open,       \* whether the receiver of each tunnel's channel is alive
    errs,          \* how many times an error was sent to each tunnel
    start_at,      \* the await point of start_tunnel
    start_id,      \* the id the server answered start_tunnel's listen with
    listened,      \* the ids the server has answered a listen for
    inserted,      \* the ids start_tunnel has inserted into the map
    close_at,      \* the await point of close_tunnel
    close_id,      \* the id close_tunnel was called with
    lost,          \* the ids of the connections dropped with no sender found
    borked,        \* the muxado session has failed
    conns_left     \* the accept results the session has yet to produce

\* the variables of the ngrok session's tunnels
tnvars == <<tunnels, tunnels_lock, incoming, accept_at, accept_conn, drain_todo,
            drain_set, chan, rx_open, errs, start_at, start_id, listened,
            inserted, close_at, close_id, lost, borked, conns_left>>

\* the variables outside the session
nonsession == <<muxvars, hbvars, tvars, tsvars, bvars, lkvars, rsvars, fcvars, tnvars>>

\* the variables outside the outgoing multiplex
nonmux == <<svars, hbvars, tvars, tsvars, bvars, lkvars, rsvars, fcvars, tnvars>>

\* the variables outside the heartbeat tasks
nonhb == <<svars, muxvars, tvars, tsvars, bvars, lkvars, rsvars, fcvars, tnvars>>

\* the variables outside the Heartbeat wrapper
nontyped == <<svars, muxvars, hbvars, tsvars, bvars, lkvars, rsvars, fcvars, tnvars>>

\* the variables outside the typed stream
nonts == <<svars, muxvars, hbvars, tvars, bvars, lkvars, rsvars, fcvars, tnvars>>

\* the variables outside the SessionBuilder
nonbuilder == <<svars, muxvars, hbvars, tvars, tsvars, lkvars, rsvars, fcvars, tnvars>>

\* the variables outside the responder
nonresp == <<svars, muxvars, hbvars, tvars, tsvars, bvars, lkvars, fcvars, tnvars>>

\* the variables outside the tasks around the lock
nonlock == <<svars, muxvars, hbvars, tvars, tsvars, bvars, rsvars, fcvars, tnvars>>

\* the variables outside the flow control
nonflow == <<svars, muxvars, hbvars, tvars, tsvars, bvars, lkvars, rsvars, tnvars>>

\* the variables outside the tunnels
nontunnel == <<svars, muxvars, hbvars, tvars, tsvars, bvars, lkvars, rsvars, fcvars>>

vars == <<svars, nonsession>>

(***************************************************************************)
(* Streams (stream.rs), modelled from the specification, sections 3, 4.2.  *)
(***************************************************************************)
\* OpenReq::create(window, local): a fresh stream.  rd, eof, wr and incs
\* record what its user has read and written and the window it was granted.
NewStream(local) ==
    [buf |-> <<>>, rd |-> <<>>, eof |-> FALSE,
     send_window |-> window, wr |-> 0, incs |-> 0,
     local_write_closed |-> FALSE, remote_write_closed |-> FALSE,
     err |-> "None", syn_pending |-> local, held |-> local]

\* what read() returns on stream s: a latched error, else buffered bytes, else
\* EOF once the remote closed its write side, else it waits
ReadResult(s) ==
    IF s.err # "None" THEN s.err
    ELSE IF s.buf # <<>> THEN "Data"
    ELSE IF s.remote_write_closed THEN "EOF"
    ELSE "Pending"

\* what write() returns on stream s: a latched error, a failure once the local
\* write side is closed, else it waits while the send window is empty
WriteResult(s) ==
    IF s.err # "None" THEN s.err
    ELSE IF s.local_write_closed THEN "StreamClosed"
    ELSE IF s.send_window = 0 THEN "Pending"
    ELSE "Ok"

\* the session error reaches a stream: its pending reads and writes fail
Latch(s, err) == IF s.err = "None" THEN [s EXCEPT !.err = err] ELSE s

(***************************************************************************)
(* The stream manager (stream_manager.rs), modelled from the               *)
(* specification, sections 3 and 4.3.                                      *)
(***************************************************************************)
Remove(f, k) == [x \in DOMAIN f \ {k} |-> f[x]]

NewManager ==
    [streams |-> <<>>, session_error |-> "None",
     last_local_id |-> NoId, last_remote_id |-> NoId,
     sys |-> <<>>, out |-> <<>>]

\* NextLocalId with the ids advancing by 1
NextLocalId_by_one(isClient, last) ==
    IF last = NoId THEN (IF isClient THEN 1 ELSE 2) ELSE last + 1

\* the next id of an endpoint's parity class: 1, 3, 5.. for the client and
\* 2, 4, 6.. for the server
NextLocalId(isClient, last) ==
    IF last = NoId THEN (IF isClient THEN 1 ELSE 2) ELSE last + 2

\* the ids the remote may use: the other parity, strictly increasing
RemoteIdOk(isClient, last, id) ==
    /\ id # NoId
    /\ (id % 2 = 0) = isClient
    /\ id > last

LiveStreams(m) == Cardinality(DOMAIN m.streams)

NewHandle == [data_write_closed |-> FALSE, local_closed |-> FALSE]

\* create_stream without the check of the stream limit
create_stream_no_limit(m, isClient, id) ==
    IF m.session_error # "None"
    THEN [ok |-> FALSE, err |-> "SessionClosed", id |-> NoId, m |-> m]
    ELSE IF id # NoId /\ ~RemoteIdOk(isClient, m.last_remote_id, id)
    THEN [ok |-> FALSE, err |-> "Protocol", id |-> NoId, m |-> m]
    ELSE LET new == IF id = NoId THEN NextLocalId(isClient, m.last_local_id) ELSE id
         IN  [ok |-> TRUE, err |-> "None", id |-> new,
              m |-> [m EXCEPT !.streams = (new :> NewHandle) @@ @,
                              !.last_local_id = IF id = NoId THEN new ELSE @,
                              !.last_remote_id = IF id = NoId THEN @ ELSE new]]

\* create_stream(id, req): id = NoId asks for a local id.  Checks the latched
\* session error first, then the remote id, then the stream limit.
create_stream(m, isClient, id) ==
    IF m.session_error # "None"
    THEN [ok |-> FALSE, err |-> "SessionClosed", id |-> NoId, m |-> m]
    ELSE IF id # NoId /\ ~RemoteIdOk(isClient, m.last_remote_id, id)
    THEN [ok |-> FALSE, err |-> "Protocol", id |-> NoId, m |-> m]
    ELSE IF LiveStreams(m) >= stream_limit
    THEN [ok |-> FALSE,
          err |-> IF id = NoId THEN "StreamsExhausted" ELSE "StreamRefused",
          id |-> NoId, m |-> m]
    ELSE LET new == IF id = NoId THEN NextLocalId(isClient, m.last_local_id) ELSE id
         IN  [ok |-> TRUE, err |-> "None", id |-> new,
              m |-> [m EXCEPT !.streams = (new :> NewHandle) @@ @,
                              !.last_local_id = IF id = NoId THEN new ELSE @,
                              !.last_remote_id = IF id = NoId THEN @ ELSE new]]

\* a stream with both directions closed leaves the manager
Reap(m, id) ==
    IF id \in DOMAIN m.streams
       /\ m.streams[id].data_write_closed /\ m.streams[id].local_closed
    THEN [m EXCEPT !.streams = Remove(@, id)]
    ELSE m

\* send_to_stream(frame): route a DATA, WND_INC or RST frame to its stream
send_to_stream(m, S, f) ==
    IF f.id \notin DOMAIN m.streams
    THEN [ok |-> FALSE, err |-> "StreamClosed", m |-> m, st |-> S]
    ELSE CASE f.typ = "Data" ->
                IF m.streams[f.id].data_write_closed
                THEN [ok |-> FALSE, err |-> "Protocol",
                      m |-> [m EXCEPT !.streams = Remove(@, f.id)],
                      st |-> [S EXCEPT ![f.id] = Latch(@, "Protocol")]]
                ELSE [ok |-> TRUE, err |-> "None", m |-> m,
                      st |-> [S EXCEPT ![f.id].buf = @ \o f.data,
                                       ![f.id].remote_write_closed = @ \/ f.fin]]
           [] f.typ = "WndInc" ->
                [ok |-> TRUE, err |-> "None", m |-> m,
                 st |-> [S EXCEPT ![f.id].send_window = @ + f.val,
                                  ![f.id].incs = @ + f.val]]
           [] OTHER ->
                [ok |-> TRUE, err |-> "None",
                 m |-> [m EXCEPT !.streams = Remove(@, f.id)],
                 st |-> [S EXCEPT ![f.id] = Latch(@, f.err)]]

\* every live stream gets the session error and leaves the manager
DrainStreams(m, S) ==
    [m |-> [m EXCEPT !.streams = <<>>],
     st |-> [id \in DOMAIN S |->
               IF id \in DOMAIN m.streams THEN Latch(S[id], "SessionClosed") ELSE S[id]]]

\* go_away(error): latch the session error, drain the streams
go_away(m, S, err) ==
    DrainStreams([m EXCEPT !.session_error = err], S)

\* close_senders(): the implicit GOAWAY(SESSION_CLOSED) of a reader that stops
close_senders(m, S) ==
    DrainStreams([m EXCEPT !.session_error =
                     IF @ = "None" THEN "SessionClosed" ELSE @], S)

\* the manager sees a frame on its way out (manager.next()): a FIN closes the
\* local direction, an RST removes the stream
NoteOutgoing(m, f) ==
    IF f.id \notin DOMAIN m.streams THEN m
    ELSE IF f.typ = "Rst" THEN [m EXCEPT !.streams = Remove(@, f.id)]
    ELSE IF f.typ = "Data" /\ f.fin
    THEN Reap([m EXCEPT !.streams[f.id].local_closed = TRUE], f.id)
    ELSE m

\* the system channel (manager.sys_sender()): RST and GOAWAY frames for the writer
sys_send(m, f) == [m EXCEPT !.sys = Append(@, f)]

\* a stream hands a frame to the manager for the writer
out_send(m, f) == [m EXCEPT !.out = Append(@, f)]

\* manager.next(): the next outgoing frame, the system channel first
HasOutgoing(m) == m.sys # <<>> \/ m.out # <<>>

NextOutgoing(m) == IF m.sys # <<>> THEN Head(m.sys) ELSE Head(m.out)

PopOutgoing(m) ==
    NoteOutgoing(IF m.sys # <<>> THEN [m EXCEPT !.sys = Tail(@)]
                 ELSE [m EXCEPT !.out = Tail(@)],
                 NextOutgoing(m))

(***************************************************************************)
(* The reader task: Reader::handle_frame and Reader::run.                  *)
(***************************************************************************)
ReaderState(m, S, aq, lsp, res) ==
    [m |-> m, st |-> S, aq |-> aq, lsp |-> lsp, res |-> res]

\* on_send_error without the RST
on_send_error_silent(m, stream_id, error) == m

\* send_to_stream failed: generate an RST to tell the other end to stop
\* sending on this stream, and go on
on_send_error(m, stream_id, error) == sys_send(m, FrameRst(stream_id, error))

\* on_send_ok without the note of a FIN on the handle
on_send_ok_forgets_fin(m, stream_id, needs_close) == m

\* on_send_ok that lets a closed stream go but leaves data_write_closed alone
on_send_ok_unflagged(m, stream_id, needs_close) ==
    IF needs_close /\ stream_id \in DOMAIN m.streams
       /\ m.streams[stream_id].local_closed
    THEN [m EXCEPT !.streams = Remove(@, stream_id)]
    ELSE m

\* send_to_stream succeeded: remember the stream, note a FIN on its handle
on_send_ok(m, stream_id, needs_close) ==
    IF needs_close /\ stream_id \in DOMAIN m.streams
    THEN Reap([m EXCEPT !.streams[stream_id].data_write_closed = TRUE], stream_id)
    ELSE m

\* HeaderType::Invalid: GOAWAY on the system channel; handle_frame then
\* returns Ok(()) like every arm that does not return early
on_invalid(m, S, aq, lsp) ==
    ReaderState(sys_send(m, FrameGoAway(lsp, "Protocol", "invalid frame")),
                S, aq, lsp, "Ok")

\* on_goaway as an arm that does nothing and lets handle_frame return Ok(())
on_goaway_ignored(m, S, aq, lsp, error) == ReaderState(m, S, aq, lsp, "Ok")

\* HeaderType::GoAway: go_away(error), then Err(RemoteGoneAway)
on_goaway(m, S, aq, lsp, error) ==
    LET g == go_away(m, S, error) IN ReaderState(g.m, g.st, aq, lsp, "Err")

\* dispatch remembering the stream of a frame whether or not it was delivered
dispatch_marks_failed(m, S, aq, lsp, f) ==
    CASE f.typ \in {"Data", "Rst", "WndInc"} ->
            LET d == send_to_stream(m, S, f) IN
            IF ~d.ok
            THEN ReaderState(on_send_error(d.m, f.id, d.err), d.st, aq, f.id, "Ok")
            ELSE ReaderState(on_send_ok(d.m, f.id, f.fin), d.st, aq, f.id, "Ok")
      [] f.typ = "GoAway" -> on_goaway(m, S, aq, lsp, f.err)
      [] OTHER -> on_invalid(m, S, aq, lsp)

\* handle_frame from `let needs_close = frame.is_fin()` on: match typ
dispatch(m, S, aq, lsp, f) ==
    CASE f.typ \in {"Data", "Rst", "WndInc"} ->
            LET d == send_to_stream(m, S, f) IN
            IF ~d.ok
            THEN ReaderState(on_send_error(d.m, f.id, d.err), d.st, aq, lsp, "Ok")
            ELSE ReaderState(on_send_ok(d.m, f.id, f.fin), d.st, aq, f.id, "Ok")
      [] f.typ = "GoAway" -> on_goaway(m, S, aq, lsp, f.err)
      [] OTHER -> on_invalid(m, S, aq, lsp)

\* handle_frame returning once the stream of a SYN frame is queued, without
\* handing the frame itself to the stream
handle_frame_syn_returns(m, S, aq, lsp, f, isClient) ==
    IF f.syn
    THEN LET c == create_stream(m, isClient, f.id) IN
         IF ~c.ok THEN ReaderState(c.m, S, aq, lsp, "Err")
         ELSE ReaderState(c.m, (f.id :> NewStream(FALSE)) @@ S, Append(aq, f.id),
                          lsp, "Ok")
    ELSE dispatch(m, S, aq, lsp, f)

\* handle_frame pushing the stream of a SYN frame without ever waiting for
\* room in the accept channel
handle_frame_never_waits(m, S, aq, lsp, f, isClient) ==
    IF f.syn
    THEN LET c == create_stream(m, isClient, f.id) IN
         IF ~c.ok THEN ReaderState(c.m, S, aq, lsp, "Err")
         ELSE dispatch(c.m, (f.id :> NewStream(FALSE)) @@ S, Append(aq, f.id), lsp, f)
    ELSE dispatch(m, S, aq, lsp, f)

\* handle_frame handing a SYN frame to its stream before the stream is sent
\* to the accept channel
handle_frame_delivers_first(m, S, aq, lsp, f, isClient) ==
    IF f.syn
    THEN LET c == create_stream(m, isClient, f.id) IN
         IF ~c.ok THEN ReaderState(c.m, S, aq, lsp, "Err")
         ELSE LET d == dispatch(c.m, (f.id :> NewStream(FALSE)) @@ S, aq, lsp, f)
              IN  IF accept_rx = "dropped" THEN [d EXCEPT !.res = "Err"]
                  ELSE [d EXCEPT !.aq = Append(aq, f.id)]
    ELSE dispatch(m, S, aq, lsp, f)

\* handle_frame from its start: a SYN creates the stream and sends it to the
\* accept channel.  accept_tx.send(stream) queues the stream and, when the
\* channel then holds more than its buffer, waits for the receiver to take a
\* stream ("Blocked") before handle_frame goes on.  With the receiver dropped
\* the send fails and handle_frame returns Err(SessionClosed).
handle_frame(m, S, aq, lsp, f, isClient) ==
    IF f.syn
    THEN LET c == create_stream(m, isClient, f.id) IN
         IF ~c.ok THEN ReaderState(c.m, S, aq, lsp, "Err")
         ELSE LET S1 == (f.id :> NewStream(FALSE)) @@ S
                  aq1 == Append(aq, f.id)
              IN  IF accept_rx = "dropped"
                  THEN ReaderState(c.m, S1, aq, lsp, "Err")
                  ELSE IF Len(aq1) > accept_queue_size
                  THEN ReaderState(c.m, S1, aq1, lsp, "Blocked")
                  ELSE dispatch(c.m, S1, aq1, lsp, f)
    ELSE dispatch(m, S, aq, lsp, f)

\* run going round its loop again after handle_frame returned Err
run_after_goes_on(r) ==
    [r EXCEPT !.res = IF r.res = "Blocked" THEN "accept_send" ELSE "read"]

\* run: the loop goes on while handle_frame returns Ok; any Err leaves it, and
\* the reader closes the senders and ends
run_after(r) ==
    IF r.res = "Err"
    THEN LET c == close_senders(r.m, r.st) IN
         [r EXCEPT !.m = c.m, !.st = c.st, !.res = "done"]
    ELSE [r EXCEPT !.res = IF r.res = "Blocked" THEN "accept_send" ELSE "read"]

ReaderApply(r) ==
    /\ manager' = r.m
    /\ st' = r.st
    /\ acceptq' = r.aq
    /\ last_stream_processed' = r.lsp
    /\ rpc' = r.res

\* io.try_next() yields Ok(Some(frame))
ReaderRecv ==
    /\ rpc = "read"
    /\ wire_in # <<>>
    /\ io_in # "err"
    /\ LET f == Head(wire_in)
           r == run_after(handle_frame(manager, st, acceptq,
                                       last_stream_processed, f, client))
       IN  /\ ReaderApply(r)
           /\ rframe' = IF r.res = "accept_send" THEN f ELSE NoFrame
    /\ wire_in' = Tail(wire_in)
    /\ UNCHANGED <<nonsession, accept_rx, client, wpc, openpc, openRes, acceptRes, allocated, io_in, peer, budget>>

\* accept_tx.send(stream) completes once accept() took a stream
ReaderAcceptSend ==
    /\ rpc = "accept_send"
    /\ Len(acceptq) <= accept_queue_size
    /\ ReaderApply(run_after(dispatch(manager, st, acceptq,
                                      last_stream_processed, rframe)))
    /\ rframe' = NoFrame
    /\ UNCHANGED <<nonsession, accept_rx, client, wpc, openpc, openRes, acceptRes, allocated, wire_in,
                   io_in, peer, budget>>

\* io.try_next() yields Ok(None) or Err(_)
ReaderEof ==
    /\ rpc = "read"
    /\ \/ io_in = "eof" /\ wire_in = <<>>
       \/ io_in = "err"
    /\ ReaderApply(run_after(ReaderState(manager, st, acceptq,
                                         last_stream_processed, "Err")))
    /\ UNCHANGED <<nonsession, accept_rx, client, rframe, wpc, openpc, openRes, acceptRes, allocated,
                   wire_in, io_in, peer, budget>>

Min(a, b) == IF a < b THEN a ELSE b

\* an operation of an application, of the peer or of the transport is counted,
\* and so are the bytes it writes
Spend(nlocal, npeer) ==
    /\ budget.ops > 0
    /\ budget' = [budget EXCEPT !.ops = @ - 1, !.local = @ - nlocal,
                                !.peer = @ - npeer]

(***************************************************************************)
(* The writer task: Writer::run.                                           *)
(***************************************************************************)
\* The transport carries the frames this endpoint writes to the peer in the
\* order written; the peer takes each frame as it is written, and grants
\* window for the bytes of a DATA frame at once.
NewPeerStream(data, fin) ==
    [sent |-> 0, recv |-> data, window |-> window,
     fin_sent |-> FALSE, fin_recv |-> fin, dead |-> FALSE]

\* what the peer's streams are after it received frame f
PeerDeliver(P, f) ==
    IF f.id \notin DOMAIN P
    THEN IF f.typ = "Data" /\ f.syn
         THEN (f.id :> NewPeerStream(f.data, f.fin)) @@ P
         ELSE P
    ELSE IF P[f.id].dead THEN P
    ELSE CASE f.typ = "Data" ->
                [P EXCEPT ![f.id].recv = @ \o f.data,
                          ![f.id].fin_recv = @ \/ f.fin]
           [] f.typ = "WndInc" -> [P EXCEPT ![f.id].window = @ + f.val]
           [] f.typ = "Rst" -> [P EXCEPT ![f.id].dead = TRUE]
           [] OTHER -> P

\* io.send(frame): the peer's streams and the frames in flight from the peer
\* after frame f was written to the transport
io_send(P, W, f) ==
    LET P1 == PeerDeliver(P, f)
        grant == /\ f.typ = "Data" /\ f.data # <<>>
                 /\ io_in = "open"
                 /\ f.id \in DOMAIN P1 /\ ~P1[f.id].dead
    IN  [streams |-> P1,
         wire |-> IF grant THEN Append(W, FrameWndInc(f.id, Len(f.data))) ELSE W]

\* frame = manager.next(), io.send(frame) succeeds
WriterSend ==
    /\ wpc = "run"
    /\ HasOutgoing(manager)
    /\ LET t == io_send(peer.streams, wire_in, NextOutgoing(manager)) IN
       /\ peer' = [peer EXCEPT !.streams = t.streams]
       /\ wire_in' = t.wire
    /\ manager' = PopOutgoing(manager)
    /\ UNCHANGED <<nonsession, accept_rx, client, st, acceptq, rpc, rframe, last_stream_processed, wpc,
                   openpc, openRes, acceptRes, allocated, io_in, budget>>

\* frame = manager.next(), io.send(frame) fails: return Err(SessionClosed)
WriterSendFails ==
    /\ wpc = "run"
    /\ HasOutgoing(manager)
    /\ manager' = PopOutgoing(manager)
    /\ wpc' = "done"
    /\ Spend(0, 0)
    /\ UNCHANGED <<nonsession, accept_rx, client, st, acceptq, rpc, rframe, last_stream_processed,
                   openpc, openRes, acceptRes, allocated, wire_in, io_in, peer>>

\* open_reply sending the stream whatever create_stream returned
open_reply_ignores_error(c) == "Stream"

\* what the writer answers an open request with: create_stream(None, req)
\* under the manager lock, the stream or the error through the oneshot
open_reply(c) == IF c.ok THEN "Stream" ELSE c.err

\* req = open_reqs.next()
WriterOpen ==
    /\ wpc = "run"
    /\ openpc = "sent"
    /\ LET c == create_stream(manager, client, NoId) IN
       /\ manager' = c.m
       /\ openRes' = open_reply(c)
       /\ st' = IF c.ok THEN (c.id :> NewStream(TRUE)) @@ st ELSE st
       /\ allocated' = IF c.ok THEN Append(allocated, c.id) ELSE allocated
    /\ openpc' = "idle"
    /\ UNCHANGED <<nonsession, accept_rx, client, acceptq, rpc, rframe, last_stream_processed, wpc,
                   acceptRes, wire_in, io_in, peer, budget>>

\* the manager's stream of outgoing frames has ended: the manager is closed
\* and nothing is left to send
ManagerTerminated(m) == m.session_error # "None" /\ ~HasOutgoing(m)

\* complete: both manager.next() and open_reqs.next() have ended
WriterComplete ==
    /\ wpc = "run"
    /\ openpc = "dropped"
    /\ ManagerTerminated(manager)
    /\ wpc' = "done"
    /\ UNCHANGED <<nonsession, accept_rx, client, manager, st, acceptq, rpc, rframe,
                   last_stream_processed, openpc, openRes, acceptRes, allocated,
                   wire_in, io_in, peer, budget>>

(***************************************************************************)
(* The session facade: MuxadoOpen::open and MuxadoAccept::accept.          *)
(***************************************************************************)
\* open(): send the oneshot to the writer; the send fails once the writer
\* dropped open_reqs
Open ==
    /\ openpc = "idle"
    /\ NextLocalId(client, manager.last_local_id) <= MaxId
    /\ IF wpc = "done"
       THEN openRes' = "SessionClosed" /\ openpc' = openpc
       ELSE openRes' = "None" /\ openpc' = "sent"
    /\ Spend(0, 0)
    /\ UNCHANGED <<nonsession, accept_rx, client, manager, st, acceptq, rpc, rframe,
                   last_stream_processed, wpc, acceptRes, allocated, wire_in,
                   io_in, peer>>

\* open() that goes on waiting on resp_rx after the writer has ended
OpenCancelled_keeps_waiting ==
    /\ openpc = "sent"
    /\ wpc = "done"
    /\ UNCHANGED vars

\* open(): the writer ended with the request unanswered, resp_rx is cancelled
OpenCancelled ==
    /\ openpc = "sent"
    /\ wpc = "done"
    /\ openRes' = "SessionClosed"
    /\ openpc' = "idle"
    /\ UNCHANGED <<nonsession, accept_rx, client, manager, st, acceptq, rpc, rframe,
                   last_stream_processed, wpc, acceptRes, allocated, wire_in,
                   io_in, peer, budget>>

\* accept() waiting for a stream also when the reader is gone
Accept_waits ==
    /\ accept_rx = "open"
    /\ acceptq # <<>>
    /\ acceptRes' = "Stream"
    /\ acceptq' = Tail(acceptq)
    /\ st' = [st EXCEPT ![Head(acceptq)].held = TRUE]
    /\ UNCHANGED <<nonsession, accept_rx, client, manager, rpc, rframe, last_stream_processed, wpc,
                   openpc, openRes, allocated, wire_in, io_in, peer, budget>>

\* accept(): the next stream of the accept channel, None once the reader
\* (the only sender) is gone and the channel is empty
Accept ==
    /\ accept_rx = "open"
    /\ IF acceptq # <<>>
       THEN /\ acceptRes' = "Stream"
            /\ acceptq' = Tail(acceptq)
            /\ st' = [st EXCEPT ![Head(acceptq)].held = TRUE]
       ELSE /\ rpc = "done"
            /\ acceptRes' = "None"
            /\ UNCHANGED <<acceptq, st>>
    /\ UNCHANGED <<nonsession, accept_rx, client, manager, rpc, rframe, last_stream_processed, wpc,
                   openpc, openRes, allocated, wire_in, io_in, peer,
                   budget>>

\* the open half of the session is dropped: open_tx, the only sender of the
\* open requests, is gone and open_reqs.next() yields None from then on
DropOpen ==
    /\ openpc = "idle"
    /\ openpc' = "dropped"
    /\ Spend(0, 0)
    /\ UNCHANGED <<nonsession, accept_rx, client, manager, st, acceptq, rpc, rframe,
                   last_stream_processed, wpc, openRes, acceptRes, allocated,
                   wire_in, io_in, peer>>

\* the accept half of the session is dropped: accept_rx is gone with the
\* streams queued in it; a reader waiting in accept_tx.send is released
DropAccept ==
    /\ accept_rx = "open"
    /\ accept_rx' = "dropped"
    /\ acceptq' = <<>>
    /\ Spend(0, 0)
    /\ UNCHANGED <<nonsession, client, manager, st, rpc, rframe, last_stream_processed, wpc,
                   openpc, openRes, acceptRes, allocated, wire_in, io_in, peer>>

(***************************************************************************)
(* The users of the streams (stream.rs, from the specification, 4.2).      *)
(***************************************************************************)

Held == {id \in DOMAIN st : st[id].held}

\* read(buf) returns k buffered bytes and grants the peer k bytes of window
Read(id, k) ==
    /\ ReadResult(st[id]) = "Data"
    /\ k \in 1..Len(st[id].buf)
    /\ st' = [st EXCEPT ![id].rd = @ \o SubSeq(st[id].buf, 1, k),
                        ![id].buf = SubSeq(@, k + 1, Len(@))]
    /\ manager' = out_send(manager, FrameWndInc(id, k))
    /\ UNCHANGED <<nonsession, accept_rx, client, acceptq, rpc, rframe, last_stream_processed, wpc,
                   openpc, openRes, acceptRes, allocated, wire_in, io_in, peer, budget>>

\* read(buf) returns EOF
ReadEof(id) ==
    /\ ReadResult(st[id]) = "EOF"
    /\ ~st[id].eof
    /\ st' = [st EXCEPT ![id].eof = TRUE]
    /\ UNCHANGED <<nonsession, accept_rx, client, manager, acceptq, rpc, rframe, last_stream_processed,
                   wpc, openpc, openRes, acceptRes, allocated, wire_in, io_in, peer, budget>>

\* write(buf) sending its bytes without taking them off the send window
Write_keeps_window(id, n) ==
    /\ WriteResult(st[id]) = "Ok"
    /\ n \in 1..Min(st[id].send_window, budget.local)
    /\ manager' = out_send(manager, FrameData(id, st[id].syn_pending, FALSE,
                                              Bytes(st[id].wr + 1, st[id].wr + n)))
    /\ st' = [st EXCEPT ![id].wr = @ + n, ![id].syn_pending = FALSE]
    /\ Spend(n, 0)
    /\ UNCHANGED <<nonsession, accept_rx, client, acceptq, rpc, rframe, last_stream_processed, wpc,
                   openpc, openRes, acceptRes, allocated, wire_in, io_in, peer>>

\* write(buf) sends n bytes, at most the send window, SYN on the first frame
Write(id, n) ==
    /\ WriteResult(st[id]) = "Ok"
    /\ n \in 1..Min(st[id].send_window, budget.local)
    /\ manager' = out_send(manager, FrameData(id, st[id].syn_pending, FALSE,
                                              Bytes(st[id].wr + 1, st[id].wr + n)))
    /\ st' = [st EXCEPT ![id].wr = @ + n, ![id].send_window = @ - n,
                        ![id].syn_pending = FALSE]
    /\ Spend(n, 0)
    /\ UNCHANGED <<nonsession, accept_rx, client, acceptq, rpc, rframe, last_stream_processed, wpc,
                   openpc, openRes, acceptRes, allocated, wire_in, io_in, peer>>

\* close_write emitting a FIN on every call
close_write_always(m, S, id) ==
    IF S[id].err # "None" THEN [m |-> m, st |-> S]
    ELSE [m |-> out_send(m, FrameData(id, S[id].syn_pending, TRUE, <<>>)),
          st |-> [S EXCEPT ![id].local_write_closed = TRUE,
                           ![id].syn_pending = FALSE]]

\* close_write on stream id: an empty DATA frame with FIN and the local write
\* side closed; nothing when that side is closed already or an error is latched
close_write(m, S, id) ==
    IF S[id].err # "None" \/ S[id].local_write_closed THEN [m |-> m, st |-> S]
    ELSE [m |-> out_send(m, FrameData(id, S[id].syn_pending, TRUE, <<>>)),
          st |-> [S EXCEPT ![id].local_write_closed = TRUE,
                           ![id].syn_pending = FALSE]]

\* reset emitting an RST on every call
reset_always(m, S, id) ==
    [m |-> out_send(m, FrameRst(id, "Cancel")),
     st |-> [S EXCEPT ![id].err = "Cancel", ![id].local_write_closed = TRUE,
                      ![id].remote_write_closed = TRUE]]

\* reset(error_code) on stream id: an RST frame, the error latched, both
\* halves closed; nothing when an error is latched already
reset(m, S, id) ==
    IF S[id].err # "None" THEN [m |-> m, st |-> S]
    ELSE [m |-> out_send(m, FrameRst(id, "Cancel")),
          st |-> [S EXCEPT ![id].err = "Cancel", ![id].local_write_closed = TRUE,
                           ![id].remote_write_closed = TRUE]]

\* the application calls close_write on a stream whose write side is open
CloseWrite(id) ==
    /\ st[id].err = "None"
    /\ ~st[id].local_write_closed
    /\ manager' = close_write(manager, st, id).m
    /\ st' = close_write(manager, st, id).st
    /\ Spend(0, 0)
    /\ UNCHANGED <<nonsession, accept_rx, client, acceptq, rpc, rframe, last_stream_processed, wpc,
                   openpc, openRes, acceptRes, allocated, wire_in, io_in, peer>>

\* the application calls reset on a stream that has no error latched
Reset(id) ==
    /\ st[id].err = "None"
    /\ manager' = reset(manager, st, id).m
    /\ st' = reset(manager, st, id).st
    /\ Spend(0, 0)
    /\ UNCHANGED <<nonsession, accept_rx, client, acceptq, rpc, rframe, last_stream_processed, wpc,
                   openpc, openRes, acceptRes, allocated, wire_in, io_in, peer>>

(***************************************************************************)
(* The peer and the transport.  The peer is the other endpoint of the      *)
(* protocol: it opens streams with ids of its own parity, writes within    *)
(* the window it was granted, grants window for what it received, closes   *)
(* and resets streams.  A misbehaving peer also sends GOAWAY, frames of an *)
(* invalid type and frames on an id that no stream has.                    *)
(***************************************************************************)
PeerCanSend(id) ==
    /\ io_in = "open"
    /\ id \in DOMAIN peer.streams
    /\ ~peer.streams[id].dead
    /\ ~peer.streams[id].fin_sent

\* the peer opens a stream: its first DATA frame carries SYN and n bytes
PeerOpen(n) ==
    /\ io_in = "open"
    /\ NextLocalId(~client, peer.last_id) <= MaxId
    /\ n \in 0..Min(1, budget.peer)
    /\ LET id == NextLocalId(~client, peer.last_id) IN
       /\ wire_in' = Append(wire_in, FrameData(id, TRUE, FALSE, Bytes(1, n)))
       /\ peer' = [peer EXCEPT
                     !.last_id = id,
                     !.allocated = Append(@, id),
                     !.streams = (id :> [NewPeerStream(<<>>, FALSE) EXCEPT
                                           !.sent = n, !.window = window - n]) @@ @]
    /\ Spend(0, n)
    /\ UNCHANGED <<nonsession, accept_rx, client, manager, st, acceptq, rpc, rframe,
                   last_stream_processed, wpc, openpc, openRes, acceptRes,
                   allocated, io_in>>

PeerWrite(id, n) ==
    /\ PeerCanSend(id)
    /\ n \in 1..Min(peer.streams[id].window, budget.peer)
    /\ wire_in' = Append(wire_in,
                         FrameData(id, FALSE, FALSE,
                                   Bytes(peer.streams[id].sent + 1,
                                         peer.streams[id].sent + n)))
    /\ peer' = [peer EXCEPT !.streams[id].sent = @ + n,
                            !.streams[id].window = @ - n]
    /\ Spend(0, n)
    /\ UNCHANGED <<nonsession, accept_rx, client, manager, st, acceptq, rpc, rframe,
                   last_stream_processed, wpc, openpc, openRes, acceptRes,
                   allocated, io_in>>

PeerClose(id) ==
    /\ PeerCanSend(id)
    /\ wire_in' = Append(wire_in, FrameData(id, FALSE, TRUE, <<>>))
    /\ peer' = [peer EXCEPT !.streams[id].fin_sent = TRUE]
    /\ Spend(0, 0)
    /\ UNCHANGED <<nonsession, accept_rx, client, manager, st, acceptq, rpc, rframe,
                   last_stream_processed, wpc, openpc, openRes, acceptRes,
                   allocated, io_in>>

PeerReset(id) ==
    /\ PeerCanSend(id)
    /\ wire_in' = Append(wire_in, FrameRst(id, "Cancel"))
    /\ peer' = [peer EXCEPT !.streams[id].dead = TRUE]
    /\ Spend(0, 0)
    /\ UNCHANGED <<nonsession, accept_rx, client, manager, st, acceptq, rpc, rframe,
                   last_stream_processed, wpc, openpc, openRes, acceptRes,
                   allocated, io_in>>

Injected ==
    {FrameGoAway(NoId, "NoError", "bye"),
     FrameInvalid(NoId),
     FrameData(StrayId, FALSE, FALSE, <<1>>),
     FrameWndInc(StrayId, 1),
     FrameRst(StrayId, "Cancel")}

PeerInject(f) ==
    /\ io_in = "open"
    /\ f \in Injected
    /\ wire_in' = Append(wire_in, f)
    /\ Spend(0, 0)
    /\ UNCHANGED <<nonsession, accept_rx, client, manager, st, acceptq, rpc, rframe,
                   last_stream_processed, wpc, openpc, openRes, acceptRes,
                   allocated, io_in, peer>>

\* the transport ends (EOF) or fails (a read error)
TransportClose(how) ==
    /\ io_in = "open"
    /\ how \in {"eof", "err"}
    /\ io_in' = how
    /\ Spend(0, 0)
    /\ UNCHANGED <<nonsession, accept_rx, client, manager, st, acceptq, rpc, rframe,
                   last_stream_processed, wpc, openpc, openRes, acceptRes,
                   allocated, wire_in, peer>>

(***************************************************************************)
(* SessionBuilder::start and the specification.                            *)
(***************************************************************************)
SessionInit ==
    /\ client \in BOOLEAN
    /\ manager = NewManager
    /\ st = <<>>
    /\ acceptq = <<>>
    /\ rpc = "read"
    /\ rframe = NoFrame
    /\ last_stream_processed = NoId
    /\ wpc = "run"
    /\ openpc = "idle"
    /\ openRes = "None"
    /\ acceptRes = "NotCalled"
    /\ allocated = <<>>
    /\ wire_in = <<>>
    /\ io_in = "open"
    /\ peer = [streams |-> <<>>, last_id |-> NoId, allocated |-> <<>>]
    /\ budget = [local |-> MaxData, peer |-> MaxData, ops |-> MaxOps]
    /\ accept_rx = "open"

\* the streams of the outgoing multiplex
MuxIds == 1..stream_limit

\* no stream has anything to send
MuxInit ==
    /\ backlog = [i \in MuxIds |-> 0]
    /\ win = [i \in MuxIds |-> window]
    /\ cursor = NoId
    /\ wrote = NoId

\* the longest interval and the longest tolerance
MaxDur == 2

Durs == 1..MaxDur

\* the ids of heartbeats: rand::random() of an i32, two values of it
HbIds == 1..2

\* the latency of an exchange, a duration that is not 0
Latency == "Latency"

\* Heartbeat::start with a callback: the requester and the monitor are
\* started, the ticker's first tick is ready at once
HbStart(i, t) ==
    /\ durations = [interval |-> i, tolerance |-> t]
    /\ period = i
    /\ ticker = 0
    /\ deadline = i + t
    /\ rq_pc = "select"
    /\ resp_chan = "None"
    /\ rq_id = NoId
    /\ echo = NoId
    /\ hb_io = "ok"
    /\ on_demand = <<>>
    /\ ctl = "held"
    /\ beat_pc = "idle"
    /\ beat_res = "None"
    /\ mark = <<>>
    /\ mon_pc = "wait"
    /\ cb_last = "None"
    /\ beat_done = FALSE

\* a stream type, a u32, as its 4 bytes in network order
StreamType(t) == <<0, 0, 0, t>>

\* the reserved type of heartbeat streams, 0xFFFFFFFF
HEARTBEAT_TYPE == <<255, 255, 255, 255>>

\* the largest type of the other streams
MaxType == 2

\* how many streams the peer opens
MaxInbound == 3

StreamTypes == {HEARTBEAT_TYPE} \cup {StreamType(t) : t \in 1..MaxType}

\* the errors the inner session's accept can fail with
InnerErrors == {"SessionClosed", "StreamsExhausted"}

\* the results of accept_typed: none yet, Ok(stream), Err(e)
NoResult == [n |-> 0, typ |-> <<>>, err |-> "None"]

Ok(s) == [n |-> s.n, typ |-> s.typ, err |-> "Ok"]

Err(e) == [n |-> 0, typ |-> <<>>, err |-> e]

\* how many streams are opened on the inner session
MaxOpened == 3

\* a Heartbeat wrapper on a fresh inner session
TypedInit ==
    /\ inner = "open"
    /\ inbound = <<>>
    /\ taken = <<>>
    /\ responders = <<>>
    /\ returned = <<>>
    /\ acc_pc = "idle"
    /\ acc_res = NoResult
    /\ halves = "joined"
    /\ opened = <<>>
    /\ open_typ = <<>>
    /\ open_res = NoResult

\* how many user bytes the opener writes
MaxUser == 2

\* the user bytes
UserBytes == {0, 1, 255}

\* a u32, as its two 16-bit halves
U32(hi, lo) == [hi |-> hi, lo |-> lo]

\* the stream types opened: 0xFFFFFFFF, 1, 0x100, 0x10000
OpenedTypes == {U32(65535, 65535), U32(0, 1), U32(0, 256), U32(1, 0)}

NoType == U32(0, 0)

\* a typed stream that is not opened yet
TsInit ==
    /\ ts_pc = "none"
    /\ ts_typ = NoType
    /\ ts_sent = <<>>
    /\ ts_wire = <<>>
    /\ ts_buf = <<>>
    /\ ts_tag = <<>>
    /\ ts_apc = "tag"
    /\ ts_atyp = NoType
    /\ ts_got = <<>>

\* HeartbeatConfig::default(): interval 10 s, tolerance 15 s
DefaultInterval == 10

DefaultTolerance == 15

\* the longest duration, in seconds, whose nanoseconds fit an i64 (the model's
\* stand-in for i64::MAX nanoseconds)
MaxSecs == 20

\* the durations a builder is configured with; the last one does not fit
BuilderDurs == {1, DefaultInterval, DefaultTolerance, MaxSecs, MaxSecs + 1}

None == [some |-> FALSE, val |-> 0]

Some(d) == [some |-> TRUE, val |-> d]

\* SessionBuilder::default() and no connect yet
BuilderInit ==
    /\ heartbeat_interval = None
    /\ heartbeat_tolerance = None
    /\ connected = [res |-> "None", heartbeat_interval |-> 0, heartbeat_tolerance |-> 0]

\* the capacity of the system channel, the open requests and the frames of
\* one run of the tasks around the lock
SysQueue == 1
MaxReqs == 2
MaxFrames == 3

NoLockFrame == [typ |-> "None", syn |-> FALSE, fin |-> FALSE]

\* Session::start: the reader and the writer are spawned, nobody holds the
\* manager's lock
LockInit ==
    /\ manager_lock = "none"
    /\ reader_at = "try_next"
    /\ reader_frame = NoLockFrame
    /\ writer_at = "select"
    /\ accept_len = 0
    /\ sys_len = 0
    /\ open_reqs = 0
    /\ replies = 0
    /\ io_ready = TRUE
    /\ frames_left = MaxFrames

\* the heartbeats a peer sends and the bytes a responder writes in one run
MaxBeats == 2
MaxOut == 8

\* start_responder(stream): the task is spawned on an inbound heartbeat stream
ResponderInit ==
    /\ rs_pc = "read"
    /\ rs_chunk = <<0, 0, 0, 0>>
    /\ rs_sent = <<>>
    /\ rs_wire = <<>>
    /\ rs_buf = <<>>
    /\ rs_fin = FALSE
    /\ rs_io = "ok"
    /\ rs_out = <<>>

\* the bytes the sender's application writes on the stream in one run
MaxWrite == 5

\* a stream just opened: the sender has the initial window, nothing is sent
FlowInit ==
    /\ fc_todo = 0
    /\ fc_written = 0
    /\ fc_send_window = window
    /\ fc_data = <<>>
    /\ fc_buf = 0
    /\ fc_drained = 0
    /\ fc_incs = <<>>

\* the tunnels of one run, the accept results of one run, and the capacity
\* of a tunnel's channel
MaxTunnels == 2
MaxConns == 2
TunnelChannel == 1

TunnelIds == 1..MaxTunnels

\* Session::connect: the map is empty and accept_incoming is spawned
TunnelInit ==
    /\ tunnels = {}
    /\ tunnels_lock = "none"
    /\ incoming = <<>>
    /\ accept_at = "accept"
    /\ accept_conn = 0
    /\ drain_todo = <<>>
    /\ drain_set = {}
    /\ chan = [id \in TunnelIds |-> <<>>]
    /\ rx_open = [id \in TunnelIds |-> TRUE]
    /\ errs = [id \in TunnelIds |-> 0]
    /\ start_at = "idle"
    /\ start_id = 0
    /\ listened = {}
    /\ inserted = {}
    /\ close_at = "idle"
    /\ close_id = 0
    /\ lost = {}
    /\ borked = FALSE
    /\ conns_left = MaxConns

Init ==
    /\ SessionInit /\ MuxInit /\ HbStart(1, 1) /\ TypedInit /\ TsInit /\ BuilderInit
    /\ LockInit /\ ResponderInit /\ FlowInit /\ TunnelInit

Ids == 1..MaxId

Next ==
    \/ ReaderRecv
    \/ ReaderAcceptSend
    \/ ReaderEof
    \/ WriterSend
    \/ WriterSendFails
    \/ WriterOpen
    \/ WriterComplete
    \/ Open
    \/ OpenCancelled
    \/ Accept
    \/ DropOpen
    \/ DropAccept
    \/ \E id \in Held : \E k \in 1..window : Read(id, k)
    \/ \E id \in Held : ReadEof(id)
    \/ \E id \in Held : \E n \in 1..window : Write(id, n)
    \/ \E id \in Held : CloseWrite(id)
    \/ \E id \in Held : Reset(id)
    \/ \E n \in 0..1 : PeerOpen(n)
    \/ \E id \in Ids : \E n \in 1..window : PeerWrite(id, n)
    \/ \E id \in Ids : PeerClose(id)
    \/ \E id \in Ids : PeerReset(id)
    \/ \E f \in Injected : PeerInject(f)
    \/ \E how \in {"eof", "err"} : TransportClose(how)

Spec == Init /\ [][Next]_vars

(***************************************************************************)
(* A peer that breaks the protocol on a stream or with a SYN.              *)
(***************************************************************************)
\* the peer sends a DATA frame, with or without FIN, on a stream on which it
\* has sent its FIN; it sends nothing on that stream afterwards
PeerDataAfterFin(id, fin) ==
    /\ io_in = "open"
    /\ id \in DOMAIN peer.streams
    /\ peer.streams[id].fin_sent
    /\ ~peer.streams[id].dead
    /\ wire_in' = Append(wire_in, FrameData(id, FALSE, fin, <<1>>))
    /\ peer' = [peer EXCEPT !.streams[id].dead = TRUE]
    /\ UNCHANGED <<nonsession, accept_rx, client, manager, st, acceptq, rpc, rframe,
                   last_stream_processed, wpc, openpc, openRes, acceptRes,
                   allocated, io_in, budget>>

\* the ids of a SYN that breaks the protocol: the id the peer used last, and
\* the id after its next one, which has the parity of the local ids
BadSynIds == ({peer.last_id} \ {NoId}) \cup {NextLocalId(~client, peer.last_id) + 1}

\* the peer sends a SYN with an id of the wrong parity, or with an id that is
\* not above every id it has used
PeerBadSyn(id) ==
    /\ io_in = "open"
    /\ id \in BadSynIds
    /\ wire_in' = Append(wire_in, FrameData(id, TRUE, FALSE, <<>>))
    /\ Spend(0, 0)
    /\ UNCHANGED <<nonsession, accept_rx, client, manager, st, acceptq, rpc, rframe,
                   last_stream_processed, wpc, openpc, openRes, acceptRes,
                   allocated, io_in, peer>>

ProtoNext ==
    \/ Next
    \/ \E id \in Ids : \E fin \in BOOLEAN : PeerDataAfterFin(id, fin)
    \/ \E id \in 1..StrayId + 1 : PeerBadSyn(id)

ProtoSpec == Init /\ [][ProtoNext]_vars

(***************************************************************************)
(* The outgoing multiplex (stream_manager.rs, from the specification,      *)
(* section 4.3) under sustained load: streams that keep having frames to   *)
(* send, the manager choosing among the ready ones, the writer (Writer::run)*)
(* writing what manager.next() yields.                                     *)
(***************************************************************************)
\* a stream is ready: it has data to send and send_window > 0
Ready(i) == backlog[i] > 0 /\ win[i] > 0

ReadySet == {i \in MuxIds : Ready(i)}

\* how far stream i is after stream c in the round
Turn(c, i) == (i - c - 1) % stream_limit

\* the manager always choosing the numerically smallest ready stream
next_ready_smallest(c) ==
    CHOOSE i \in ReadySet : \A j \in ReadySet : i <= j

\* round-robin over the ready streams: the first ready stream after the one
\* served last
next_ready(c) ==
    CHOOSE i \in ReadySet : \A j \in ReadySet : Turn(c, i) <= Turn(c, j)

\* the application of stream i has another frame's worth of data to send
MuxProduce(i) ==
    /\ backlog[i] < MaxData
    /\ backlog' = [backlog EXCEPT ![i] = @ + 1]
    /\ wrote' = NoId
    /\ UNCHANGED <<nonmux, win, cursor>>

\* a WND_INC of the peer for stream i arrives
MuxGrant(i) ==
    /\ win[i] < window
    /\ win' = [win EXCEPT ![i] = @ + 1]
    /\ wrote' = NoId
    /\ UNCHANGED <<nonmux, backlog, cursor>>

\* frame = manager.next(), io.send(frame): a frame of the stream the manager
\* chose is written to the transport
MuxWriterSend ==
    /\ ReadySet # {}
    /\ LET i == next_ready(cursor) IN
       /\ backlog' = [backlog EXCEPT ![i] = @ - 1]
       /\ win' = [win EXCEPT ![i] = @ - 1]
       /\ cursor' = i
       /\ wrote' = i
    /\ UNCHANGED nonmux

MuxNext ==
    \/ \E i \in MuxIds : MuxProduce(i)
    \/ \E i \in MuxIds : MuxGrant(i)
    \/ MuxWriterSend

\* a session of the client role with streams that have nothing to send yet
MuxStart == Init /\ client = TRUE

\* the scheduler runs the writer whenever a frame is ready
MuxSpec == MuxStart /\ [][MuxNext]_vars /\ WF_vars(MuxWriterSend)

(***************************************************************************)
(* The heartbeat tasks (muxado/src/heartbeat.rs): the requester            *)
(* (start_requester), the monitor (start_check) and HeartbeatCtl.          *)
(***************************************************************************)
\* get_durations and the deadline the monitor sets: now + interval + tolerance
NewDeadline(d) == d.interval + d.tolerance

Dec(n) == IF n > 0 THEN n - 1 ELSE 0

\* time passes: the ticker's next tick and the monitor's deadline come nearer
TimePasses ==
    /\ rq_pc # "done" \/ mon_pc # "done"
    /\ ticker > 0 \/ deadline > 0
    /\ ticker' = Dec(ticker)
    /\ deadline' = Dec(deadline)
    /\ UNCHANGED <<nonhb, beat_done, durations, period, rq_pc, resp_chan, rq_id, echo, hb_io,
                   on_demand, ctl, beat_pc, beat_res, mark, mon_pc, cb_last>>

\* select!: on_demand.recv() yields a request, it becomes resp_chan
RqDemand ==
    /\ rq_pc = "select"
    /\ on_demand # <<>>
    /\ on_demand' = Tail(on_demand)
    /\ resp_chan' = "Some"
    /\ rq_pc' = "write"
    /\ UNCHANGED <<nonhb, beat_done, durations, period, ticker, deadline, rq_id, echo, hb_io,
                   ctl, beat_pc, beat_res, mark, mon_pc, cb_last>>

\* RqClosed going on to the exchange without waiting on the ticker
RqClosed_no_tick ==
    /\ rq_pc = "select"
    /\ on_demand = <<>>
    /\ ctl = "dropped"
    /\ rq_pc' = "write"
    /\ UNCHANGED <<nonhb, beat_done, durations, period, ticker, deadline, resp_chan, rq_id,
                   echo, hb_io, on_demand, ctl, beat_pc, beat_res, mark, mon_pc,
                   cb_last>>

\* select!: on_demand is closed, recv() yields None: wait on the next tick
RqClosed ==
    /\ rq_pc = "select"
    /\ on_demand = <<>>
    /\ ctl = "dropped"
    /\ rq_pc' = "tick"
    /\ UNCHANGED <<nonhb, beat_done, durations, period, ticker, deadline, resp_chan, rq_id,
                   echo, hb_io, on_demand, ctl, beat_pc, beat_res, mark, mon_pc,
                   cb_last>>

\* ticker.tick() completes, in select! or after on_demand was found closed
RqTick ==
    /\ rq_pc \in {"select", "tick"}
    /\ ticker = 0
    /\ ticker' = period
    /\ rq_pc' = "write"
    /\ UNCHANGED <<nonhb, beat_done, durations, period, deadline, resp_chan, rq_id, echo,
                   hb_io, on_demand, ctl, beat_pc, beat_res, mark, mon_pc, cb_last>>

\* the requester returns: its resp_chan, drx, mtx and its locals are dropped
\* with it
RqExit ==
    /\ rq_pc' = "done"
    /\ resp_chan' = "None"
    /\ on_demand' = <<>>
    /\ rq_id' = NoId
    /\ ticker' = 0

\* stream.write_all(id): a fresh id goes out, or the write fails
RqWrite(id) ==
    /\ rq_pc = "write"
    /\ IF hb_io = "ok"
       THEN /\ rq_id' = id
            /\ rq_pc' = "read"
            /\ UNCHANGED <<resp_chan, on_demand, ticker>>
       ELSE RqExit
    /\ UNCHANGED <<nonhb, beat_done, durations, period, deadline, echo, hb_io, ctl,
                   beat_pc, beat_res, mark, mon_pc, cb_last>>

\* RqRead reporting a latency whatever id came back
RqRead_ignores_id ==
    /\ rq_pc = "read"
    /\ echo # NoId \/ hb_io = "err"
    /\ echo' = NoId
    /\ IF hb_io = "err"
       THEN /\ RqExit
            /\ UNCHANGED <<beat_pc, beat_res, beat_done>>
       ELSE IF resp_chan = "Some"
       THEN /\ beat_res' = Latency
            /\ beat_done' = (mon_pc = "wait")
            /\ beat_pc' = "idle"
            /\ resp_chan' = "None"
            /\ rq_pc' = "select"
            /\ rq_id' = NoId
            /\ UNCHANGED <<on_demand, ticker>>
       ELSE /\ rq_pc' = "mark"
            /\ rq_id' = NoId
            /\ UNCHANGED <<resp_chan, on_demand, ticker, beat_pc, beat_res,
                         beat_done>>
    /\ UNCHANGED <<nonhb, durations, period, deadline, hb_io, ctl, mark, mon_pc,
                   cb_last>>

\* RqRead reporting the latency of an on-demand exchange to the monitor too
RqRead_reports_both ==
    /\ rq_pc = "read"
    /\ echo # NoId \/ hb_io = "err"
    /\ echo' = NoId
    /\ IF hb_io = "err" \/ echo # rq_id
       THEN /\ RqExit
            /\ UNCHANGED <<beat_pc, beat_res, beat_done>>
       ELSE IF resp_chan = "Some"
       THEN /\ beat_res' = Latency
            /\ beat_done' = (mon_pc = "wait")
            /\ beat_pc' = "idle"
            /\ resp_chan' = "None"
            /\ rq_pc' = "mark"
            /\ rq_id' = NoId
            /\ UNCHANGED <<on_demand, ticker>>
       ELSE /\ rq_pc' = "mark"
            /\ rq_id' = NoId
            /\ UNCHANGED <<resp_chan, on_demand, ticker, beat_pc, beat_res,
                         beat_done>>
    /\ UNCHANGED <<nonhb, durations, period, deadline, hb_io, ctl, mark, mon_pc,
                   cb_last>>

\* stream.read_exact(resp_bytes) returns: an error or another id than the one
\* sent ends the requester; else the latency goes to resp_chan when there is
\* one, and to the monitor otherwise
RqRead ==
    /\ rq_pc = "read"
    /\ echo # NoId \/ hb_io = "err"
    /\ echo' = NoId
    /\ IF hb_io = "err" \/ echo # rq_id
       THEN /\ RqExit
            /\ UNCHANGED <<beat_pc, beat_res, beat_done>>
       ELSE IF resp_chan = "Some"
       THEN /\ beat_res' = Latency
            /\ beat_done' = (mon_pc = "wait")
            /\ beat_pc' = "idle"
            /\ resp_chan' = "None"
            /\ rq_pc' = "select"
            /\ rq_id' = NoId
            /\ UNCHANGED <<on_demand, ticker>>
       ELSE /\ rq_pc' = "mark"
            /\ rq_id' = NoId
            /\ UNCHANGED <<resp_chan, on_demand, ticker, beat_pc, beat_res,
                         beat_done>>
    /\ UNCHANGED <<nonhb, durations, period, deadline, hb_io, ctl, mark, mon_pc,
                   cb_last>>

\* mark.send(latency).await completes: the channel has room, or the monitor
\* is gone and the error is ignored
RqMark ==
    /\ rq_pc = "mark"
    /\ mark = <<>> \/ mon_pc = "done"
    /\ mark' = IF mon_pc = "done" THEN mark ELSE Append(mark, Latency)
    /\ rq_pc' = "select"
    /\ UNCHANGED <<nonhb, beat_done, durations, period, ticker, deadline, resp_chan, rq_id,
                   echo, hb_io, on_demand, ctl, beat_pc, beat_res, mon_pc,
                   cb_last>>

\* the responder of the peer writes 4 bytes back: the id it read, or another
PeerEcho(v) ==
    /\ rq_pc = "read"
    /\ echo = NoId
    /\ hb_io = "ok"
    /\ echo' = v
    /\ UNCHANGED <<nonhb, beat_done, durations, period, ticker, deadline, rq_pc, resp_chan,
                   rq_id, hb_io, on_demand, ctl, beat_pc, beat_res, mark, mon_pc,
                   cb_last>>

\* the heartbeat stream fails: the transport failed or the stream was reset
HbStreamFails ==
    /\ hb_io = "ok"
    /\ hb_io' = "err"
    /\ UNCHANGED <<nonhb, beat_done, durations, period, ticker, deadline, rq_pc, resp_chan,
                   rq_id, echo, on_demand, ctl, beat_pc, beat_res, mark, mon_pc,
                   cb_last>>

\* the monitor's callback: cb(lat)
callback(lat) == cb_last' = lat

\* MonTimeout as in the Go implementation the source's comment describes: the
\* deadline is not reset, and the monitor is over after the callback
MonTimeout_once ==
    /\ mon_pc = "wait"
    /\ mark = <<>>
    /\ rq_pc # "done"
    /\ deadline = 0
    /\ callback("Zero")
    /\ mon_pc' = "done"
    /\ deadline' = 0
    /\ beat_done' = FALSE
    /\ UNCHANGED <<nonhb, durations, period, ticker, rq_pc, resp_chan, rq_id,
                   echo, hb_io, on_demand, ctl, beat_pc, beat_res, mark>>

\* timeout_at(deadline, mark.recv()) is Err: the deadline passed with no
\* latency; the callback gets 0, the durations are read again and the
\* deadline is set anew
MonTimeout ==
    /\ mon_pc = "wait"
    /\ mark = <<>>
    /\ rq_pc # "done"
    /\ deadline = 0
    /\ callback("Zero")
    /\ deadline' = NewDeadline(durations)
    /\ beat_done' = FALSE
    /\ UNCHANGED <<nonhb, durations, period, ticker, rq_pc, resp_chan, rq_id,
                   echo, hb_io, on_demand, ctl, beat_pc, beat_res, mark, mon_pc>>

\* timeout_at(deadline, mark.recv()) is Ok(Some(lat)): the callback gets the
\* latency and the deadline is set anew
MonRecv ==
    /\ mon_pc = "wait"
    /\ mark # <<>>
    /\ callback(Head(mark))
    /\ mark' = Tail(mark)
    /\ deadline' = NewDeadline(durations)
    /\ beat_done' = FALSE
    /\ UNCHANGED <<nonhb, durations, period, ticker, rq_pc, resp_chan, rq_id,
                   echo, hb_io, on_demand, ctl, beat_pc, beat_res, mon_pc>>

\* MonEnd returning as soon as the requester is gone, whatever is queued
MonEnd_drops_queued ==
    /\ mon_pc = "wait"
    /\ rq_pc = "done"
    /\ mon_pc' = "done"
    /\ deadline' = 0
    /\ mark' = <<>>
    /\ beat_done' = FALSE
    /\ UNCHANGED <<nonhb, durations, period, ticker, rq_pc, resp_chan, rq_id,
                   echo, hb_io, on_demand, ctl, beat_pc, beat_res, cb_last>>

\* timeout_at(deadline, mark.recv()) is Ok(None): the requester is gone and
\* nothing is left in the channel; the monitor returns
MonEnd ==
    /\ mon_pc = "wait"
    /\ mark = <<>>
    /\ rq_pc = "done"
    /\ mon_pc' = "done"
    /\ deadline' = 0
    /\ beat_done' = FALSE
    /\ UNCHANGED <<nonhb, durations, period, ticker, rq_pc, resp_chan, rq_id,
                   echo, hb_io, on_demand, ctl, beat_pc, beat_res, mark, cb_last>>

\* Beat putting its request in the mailbox whether or not the requester is
\* there to take it
Beat_always_queues ==
    /\ ctl = "held"
    /\ beat_pc = "idle"
    /\ on_demand' = Append(on_demand, "tx")
    /\ beat_pc' = "wait"
    /\ beat_res' = "None"
    /\ UNCHANGED <<nonhb, beat_done, durations, period, ticker, deadline, rq_pc, resp_chan,
                   rq_id, echo, hb_io, ctl, mark, mon_pc, cb_last>>

\* HeartbeatCtl::beat up to rx.await: on_demand.send(tx) fails with
\* NotConnected when the requester has dropped the receiver; else the request
\* is in the mailbox and the caller waits on rx
Beat ==
    /\ ctl = "held"
    /\ beat_pc = "idle"
    /\ IF rq_pc = "done"
       THEN /\ beat_res' = "NotConnected"
            /\ UNCHANGED <<on_demand, beat_pc>>
       ELSE /\ on_demand' = Append(on_demand, "tx")
            /\ beat_pc' = "wait"
            /\ beat_res' = "None"
    /\ UNCHANGED <<nonhb, beat_done, durations, period, ticker, deadline, rq_pc, resp_chan,
                   rq_id, echo, hb_io, ctl, mark, mon_pc, cb_last>>

\* HeartbeatCtl::beat, rx.await is Err: the requester returned with the
\* request in its mailbox or in its resp_chan
BeatReset ==
    /\ beat_pc = "wait"
    /\ rq_pc = "done"
    /\ beat_pc' = "idle"
    /\ beat_res' = "ConnectionReset"
    /\ UNCHANGED <<nonhb, beat_done, durations, period, ticker, deadline, rq_pc, resp_chan,
                   rq_id, echo, hb_io, on_demand, ctl, mark, mon_pc, cb_last>>

\* HeartbeatCtl::set_interval
set_interval(d) ==
    /\ ctl = "held"
    /\ d # durations.interval
    /\ durations' = [durations EXCEPT !.interval = d]
    /\ UNCHANGED <<nonhb, beat_done, period, ticker, deadline, rq_pc, resp_chan, rq_id, echo,
                   hb_io, on_demand, ctl, beat_pc, beat_res, mark, mon_pc, cb_last>>

\* HeartbeatCtl::set_tolerance
set_tolerance(d) ==
    /\ ctl = "held"
    /\ d # durations.tolerance
    /\ durations' = [durations EXCEPT !.tolerance = d]
    /\ UNCHANGED <<nonhb, beat_done, period, ticker, deadline, rq_pc, resp_chan, rq_id, echo,
                   hb_io, on_demand, ctl, beat_pc, beat_res, mark, mon_pc, cb_last>>

\* the HeartbeatCtl is dropped, and the sender of on_demand with it
DropCtl ==
    /\ ctl = "held"
    /\ beat_pc = "idle"
    /\ ctl' = "dropped"
    /\ UNCHANGED <<nonhb, beat_done, durations, period, ticker, deadline, rq_pc, resp_chan,
                   rq_id, echo, hb_io, on_demand, beat_pc, beat_res, mark, mon_pc,
                   cb_last>>

HbNext ==
    \/ TimePasses
    \/ RqDemand
    \/ RqClosed
    \/ RqTick
    \/ \E id \in HbIds : RqWrite(id)
    \/ RqRead
    \/ RqMark
    \/ \E v \in HbIds : PeerEcho(v)
    \/ HbStreamFails
    \/ MonTimeout
    \/ MonRecv
    \/ MonEnd
    \/ Beat
    \/ BeatReset
    \/ \E d \in Durs : set_interval(d)
    \/ \E d \in Durs : set_tolerance(d)
    \/ DropCtl

\* a heartbeat session started on a client session, with any interval and any
\* tolerance
HbInit ==
    /\ SessionInit
    /\ client = TRUE
    /\ MuxInit
    /\ \E i \in Durs, t \in Durs : HbStart(i, t)
    /\ TypedInit
    /\ TsInit
    /\ BuilderInit
    /\ LockInit
    /\ ResponderInit
    /\ FlowInit
    /\ TunnelInit

(***************************************************************************)
(* The Heartbeat wrapper of a typed session (muxado/src/heartbeat.rs):     *)
(* accept_typed over the inner session's accept_typed.                     *)
(***************************************************************************)
\* the peer opens a stream of type t: the n-th stream the inner session gets
InboundStream(t) ==
    /\ inner = "open"
    /\ Len(taken) + Len(inbound) < MaxInbound
    /\ inbound' = Append(inbound, [n |-> Len(taken) + Len(inbound) + 1, typ |-> t])
    /\ UNCHANGED <<nontyped, openvars, inner, taken, responders, returned, acc_pc, acc_res>>

\* the inner session fails: its accept returns the error e from then on
InnerFails(e) ==
    /\ inner = "open"
    /\ inner' = e
    /\ UNCHANGED <<nontyped, openvars, inbound, taken, responders, returned, acc_pc, acc_res>>

\* Heartbeat::accept_typed is called
AcceptTyped ==
    /\ acc_pc = "idle"
    /\ acc_pc' = "loop"
    /\ acc_res' = NoResult
    /\ UNCHANGED <<nontyped, openvars, inner, inbound, taken, responders, returned>>

\* AcceptTypedStep without the test of the type
AcceptTypedStep_returns_all ==
    /\ acc_pc = "loop"
    /\ inbound # <<>> \/ inner # "open"
    /\ IF inbound # <<>>
       THEN /\ inbound' = Tail(inbound)
            /\ taken' = Append(taken, Head(inbound))
            /\ returned' = Append(returned, Head(inbound))
            /\ acc_res' = Ok(Head(inbound))
            /\ acc_pc' = "idle"
            /\ UNCHANGED responders
       ELSE /\ acc_res' = Err(inner)
            /\ acc_pc' = "idle"
            /\ UNCHANGED <<inbound, taken, responders, returned>>
    /\ UNCHANGED <<nontyped, openvars, inner>>

\* one round of the loop of Heartbeat::accept_typed: inner.accept_typed()
\* yields a stream or an error; the error is returned by `?`; a stream of the
\* heartbeat type goes to start_responder and the loop continues; any other
\* stream is returned
AcceptTypedStep ==
    /\ acc_pc = "loop"
    /\ inbound # <<>> \/ inner # "open"
    /\ IF inbound # <<>>
       THEN /\ inbound' = Tail(inbound)
            /\ taken' = Append(taken, Head(inbound))
            /\ IF Head(inbound).typ = HEARTBEAT_TYPE
               THEN /\ responders' = Append(responders, Head(inbound))
                    /\ UNCHANGED <<returned, acc_res, acc_pc>>
               ELSE /\ returned' = Append(returned, Head(inbound))
                    /\ acc_res' = Ok(Head(inbound))
                    /\ acc_pc' = "idle"
                    /\ UNCHANGED responders
       ELSE /\ acc_res' = Err(inner)
            /\ acc_pc' = "idle"
            /\ UNCHANGED <<inbound, taken, responders, returned>>
    /\ UNCHANGED <<nontyped, openvars, inner>>

TypedNext ==
    \/ \E t \in StreamTypes : InboundStream(t)
    \/ \E e \in InnerErrors : InnerFails(e)
    \/ AcceptTyped
    \/ AcceptTypedStep

TypedStart == Init /\ client = TRUE

TypedSpec == TypedStart /\ [][TypedNext]_vars

\* open_typed of the inner session (typed.rs): a new stream of type t, or
\* the error the session has failed with
inner_open_typed(i, o, t) ==
    IF i = "open"
    THEN [res |-> Ok([n |-> Len(o) + 1, typ |-> t]),
          opened |-> Append(o, [n |-> Len(o) + 1, typ |-> t])]
    ELSE [res |-> Err(i), opened |-> o]

\* open_typed without the refusal of the heartbeat type
open_typed_any(typ, i, o, t) == inner_open_typed(i, o, t)

\* Heartbeat::open_typed of a wrapper of type typ
open_typed(typ, i, o, t) ==
    IF t = typ
    THEN [res |-> Err("StreamRefused"), opened |-> o]
    ELSE inner_open_typed(i, o, t)

\* the type of the wrapper and of both halves split_typed makes of it
HalfTyp(h) == HEARTBEAT_TYPE

\* Heartbeat::split_typed
SplitTyped ==
    /\ halves = "joined"
    /\ halves' = "split"
    /\ UNCHANGED <<nontyped, inner, accvars, opened, open_typ, open_res>>

\* Heartbeat::open_typed(t) is called, on the wrapper or on its open half
OpenTyped(t) ==
    /\ Len(opened) < MaxOpened
    /\ open_typ' = t
    /\ open_res' = open_typed(HalfTyp(halves), inner, opened, t).res
    /\ opened' = open_typed(HalfTyp(halves), inner, opened, t).opened
    /\ UNCHANGED <<nontyped, inner, accvars, halves>>

TypedOpenNext ==
    \/ \E e \in InnerErrors : InnerFails(e)
    \/ SplitTyped
    \/ \E t \in StreamTypes : OpenTyped(t)

TypedOpenSpec == TypedStart /\ [][TypedOpenNext]_vars


(***************************************************************************)
(* One typed stream (typed.rs, from the specification, section 4.7 and     *)
(* section 6): the opener writes the tag, the accepter reads it.           *)
(***************************************************************************)
\* u32::to_be_bytes
to_be_bytes(v) == <<v.hi \div 256, v.hi % 256, v.lo \div 256, v.lo % 256>>

\* u32::from_le_bytes
from_le_bytes(b) == U32(b[4] * 256 + b[3], b[2] * 256 + b[1])

\* u32::from_be_bytes
from_be_bytes(b) == U32(b[1] * 256 + b[2], b[3] * 256 + b[4])

\* the first k elements of a sequence, and the rest
Take(q, k) == SubSeq(q, 1, k)

Drop(q, k) == SubSeq(q, k + 1, Len(q))

\* open_typed(t): the stream is opened and the 4 bytes of the tag are written
\* before the stream is handed to the caller
TsOpen(t) ==
    /\ ts_pc = "none"
    /\ ts_pc' = "open"
    /\ ts_typ' = t
    /\ ts_wire' = ts_wire \o to_be_bytes(t)
    /\ UNCHANGED <<nonts, ts_sent, ts_buf, ts_tag, ts_apc, ts_atyp, ts_got>>

\* the opener writes a user byte
TsWrite(b) ==
    /\ ts_pc = "open"
    /\ Len(ts_sent) < MaxUser
    /\ ts_sent' = Append(ts_sent, b)
    /\ ts_wire' = Append(ts_wire, b)
    /\ UNCHANGED <<nonts, ts_pc, ts_typ, ts_buf, ts_tag, ts_apc, ts_atyp, ts_got>>

\* the mux delivers the next k bytes of the stream to the accepter
TsDeliver(k) ==
    /\ k <= Len(ts_wire)
    /\ ts_buf' = ts_buf \o Take(ts_wire, k)
    /\ ts_wire' = Drop(ts_wire, k)
    /\ UNCHANGED <<nonts, ts_pc, ts_typ, ts_sent, ts_tag, ts_apc, ts_atyp, ts_got>>

\* accept_typed: a read of k bytes towards the 4 bytes of the tag; with the
\* 4th byte the type is recorded on the handle and the stream is exposed
TsReadTag(k) ==
    /\ ts_apc = "tag"
    /\ k <= Len(ts_buf)
    /\ k <= 4 - Len(ts_tag)
    /\ ts_buf' = Drop(ts_buf, k)
    /\ ts_tag' = ts_tag \o Take(ts_buf, k)
    /\ IF Len(ts_tag') = 4
       THEN ts_apc' = "open" /\ ts_atyp' = from_be_bytes(ts_tag')
       ELSE UNCHANGED <<ts_apc, ts_atyp>>
    /\ UNCHANGED <<nonts, ts_pc, ts_typ, ts_sent, ts_wire, ts_got>>

\* the accepter reads k user bytes of the exposed stream
TsRead(k) ==
    /\ ts_apc = "open"
    /\ k <= Len(ts_buf)
    /\ ts_buf' = Drop(ts_buf, k)
    /\ ts_got' = ts_got \o Take(ts_buf, k)
    /\ UNCHANGED <<nonts, ts_pc, ts_typ, ts_sent, ts_wire, ts_tag, ts_apc, ts_atyp>>

TsNext ==
    \/ \E t \in OpenedTypes : TsOpen(t)
    \/ \E b \in UserBytes : TsWrite(b)
    \/ \E k \in 1..4 : TsDeliver(k)
    \/ \E k \in 1..4 : TsReadTag(k)
    \/ \E k \in 1..MaxUser : TsRead(k)

TsStart == Init /\ client = TRUE

TsSpec == TsStart /\ [][TsNext]_vars

(***************************************************************************)
(* The ngrok SessionBuilder (ngrok/src/session.rs): the heartbeat          *)
(* durations it is configured with and those connect reports to the        *)
(* server in AuthExtra. Durations are in seconds.                          *)
(***************************************************************************)
\* SessionBuilder::with_heartbeat_interval
with_heartbeat_interval(d) ==
    /\ heartbeat_interval' = Some(d)
    /\ UNCHANGED <<nonbuilder, heartbeat_tolerance, connected>>

\* SessionBuilder::with_heartbeat_tolerance
with_heartbeat_tolerance(d) ==
    /\ heartbeat_tolerance' = Some(d)
    /\ UNCHANGED <<nonbuilder, heartbeat_interval, connected>>

\* the HeartbeatConfig connect builds: the defaults, overridden by what the
\* builder was given
heartbeat_config(bi, bt) ==
    [interval |-> IF bi.some THEN bi.val ELSE DefaultInterval,
     tolerance |-> IF bt.some THEN bt.val ELSE DefaultTolerance]

\* i64::try_from(d.as_nanos()) succeeds
FitsI64(d) == d <= MaxSecs

\* what connect comes to on a network in state net: an error, or the
\* AuthExtra sent to the server. The tolerance reported is converted from
\* heartbeat_config.interval (session.rs l.225)
connect_result(bi, bt, net) ==
    LET cfg == heartbeat_config(bi, bt)
        interval_nanos == cfg.interval
        tolerance_nanos == cfg.interval
    IN  IF net # "ok"
        THEN [res |-> net, heartbeat_interval |-> 0, heartbeat_tolerance |-> 0]
        ELSE IF ~FitsI64(interval_nanos)
        THEN [res |-> "InvalidHeartbeatInterval", heartbeat_interval |-> 0,
              heartbeat_tolerance |-> 0]
        ELSE IF ~FitsI64(tolerance_nanos)
        THEN [res |-> "InvalidHeartbeatTolerance", heartbeat_interval |-> 0,
              heartbeat_tolerance |-> 0]
        ELSE [res |-> "Auth", heartbeat_interval |-> interval_nanos,
              heartbeat_tolerance |-> tolerance_nanos]

\* SessionBuilder::connect up to the auth request
Connect(net) ==
    /\ connected' = connect_result(heartbeat_interval, heartbeat_tolerance, net)
    /\ UNCHANGED <<nonbuilder, heartbeat_interval, heartbeat_tolerance>>

BuilderNext ==
    \/ \E d \in BuilderDurs : with_heartbeat_interval(d)
    \/ \E d \in BuilderDurs : with_heartbeat_tolerance(d)
    \/ \E net \in {"ok", "Tcp", "Tls"} : Connect(net)

BuilderStart == Init /\ client = TRUE

BuilderSpec == BuilderStart /\ [][BuilderNext]_vars

(***************************************************************************)
(* The reader and the writer around the stream manager's lock              *)
(* (muxado/src/session.rs): one variable per await point, the lock held    *)
(* from lock().await to the drop of the guard.                             *)
(***************************************************************************)
LockFrames ==
    [typ : {"Data"}, syn : BOOLEAN, fin : BOOLEAN]
        \cup [typ : {"GoAway", "Invalid"}, syn : {FALSE}, fin : {FALSE}]

\* the await point of the arm of `match typ` a frame goes to
Arm(f) ==
    IF f.typ = "Data" THEN "send_to_stream"
    ELSE IF f.typ = "GoAway" THEN "go_away"
    ELSE "sys_send"

\* io.try_next() yields Ok(Some(frame)); handle_frame begins
TakeFrame(f) ==
    /\ reader_at = "try_next"
    /\ frames_left > 0
    /\ frames_left' = frames_left - 1
    /\ reader_frame' = f
    /\ reader_at' = IF f.syn THEN "lock_create" ELSE Arm(f)
    /\ UNCHANGED <<nonlock, manager_lock, writer_at, accept_len, sys_len,
                   open_reqs, replies, io_ready>>

\* io.try_next() yields Ok(None) or Err(_)
ReadEnds ==
    /\ reader_at = "try_next"
    /\ reader_at' = "close_senders"
    /\ UNCHANGED <<nonlock, manager_lock, reader_frame, writer_at, accept_len,
                   sys_len, open_reqs, replies, io_ready, frames_left>>

\* self.manager.lock().await of the SYN branch completes
LockForCreate ==
    /\ reader_at = "lock_create"
    /\ manager_lock = "none"
    /\ manager_lock' = "reader"
    /\ reader_at' = "create_stream"
    /\ UNCHANGED <<nonlock, reader_frame, writer_at, accept_len, sys_len,
                   open_reqs, replies, io_ready, frames_left>>

\* CreateRemote with a guard that lives to the end of handle_frame
CreateRemote_keeps_guard(ok) ==
    /\ reader_at = "create_stream"
    /\ manager_lock = "reader"
    /\ reader_at' = IF ok THEN "accept_send" ELSE "close_senders"
    /\ UNCHANGED <<nonlock, manager_lock, reader_frame, writer_at, accept_len,
                   sys_len, open_reqs, replies, io_ready, frames_left>>

\* .create_stream(id, req)? on the guard: the guard is a temporary of the
\* statement and is dropped at its end, before accept_tx.send is awaited
CreateRemote(ok) ==
    /\ reader_at = "create_stream"
    /\ manager_lock = "reader"
    /\ manager_lock' = "none"
    /\ reader_at' = IF ok THEN "accept_send" ELSE "close_senders"
    /\ UNCHANGED <<nonlock, reader_frame, writer_at, accept_len, sys_len,
                   open_reqs, replies, io_ready, frames_left>>

\* accept_tx.send(stream).await completes: the channel has room
PushAccept ==
    /\ reader_at = "accept_send"
    /\ accept_len < accept_queue_size
    /\ accept_len' = accept_len + 1
    /\ reader_at' = Arm(reader_frame)
    /\ UNCHANGED <<nonlock, manager_lock, reader_frame, writer_at, sys_len,
                   open_reqs, replies, io_ready, frames_left>>

\* what handle_frame's locals hold when it returns: nothing
Returned ==
    /\ reader_frame' = NoLockFrame
    /\ manager_lock' = IF manager_lock = "reader" THEN "none" ELSE manager_lock

\* manager.send_to_stream(frame).await: the manager looks the stream up under
\* its lock; Err goes on to the RST, Ok with FIN to get_stream
Deliver(ok) ==
    /\ reader_at = "send_to_stream"
    /\ manager_lock = "none"
    /\ IF ~ok
       THEN reader_at' = "sys_send" /\ UNCHANGED <<reader_frame, manager_lock>>
       ELSE IF reader_frame.fin
       THEN reader_at' = "lock_get" /\ UNCHANGED <<reader_frame, manager_lock>>
       ELSE reader_at' = "try_next" /\ Returned
    /\ UNCHANGED <<nonlock, writer_at, accept_len, sys_len, open_reqs, replies,
                   io_ready, frames_left>>

\* sys_tx.send(rst or goaway).await completes: the system channel has room
SysSend ==
    /\ reader_at = "sys_send"
    /\ sys_len < SysQueue
    /\ sys_len' = sys_len + 1
    /\ reader_at' = "try_next"
    /\ Returned
    /\ UNCHANGED <<nonlock, writer_at, accept_len, open_reqs, replies,
                   io_ready, frames_left>>

\* self.manager.lock().await of `if let Ok(handle) = ...get_stream(id)`
LockForFin ==
    /\ reader_at = "lock_get"
    /\ manager_lock = "none"
    /\ manager_lock' = "reader"
    /\ reader_at' = "get_stream"
    /\ UNCHANGED <<nonlock, reader_frame, writer_at, accept_len, sys_len,
                   open_reqs, replies, io_ready, frames_left>>

\* handle.data_write_closed = true, the end of the if let: the guard is dropped
MarkFin ==
    /\ reader_at = "get_stream"
    /\ manager_lock = "reader"
    /\ manager_lock' = "none"
    /\ reader_frame' = NoLockFrame
    /\ reader_at' = "try_next"
    /\ UNCHANGED <<nonlock, writer_at, accept_len, sys_len, open_reqs, replies,
                   io_ready, frames_left>>

\* manager.go_away(error).await, return Err(RemoteGoneAway)
GoAwayArm ==
    /\ reader_at = "go_away"
    /\ manager_lock = "none"
    /\ reader_at' = "close_senders"
    /\ Returned
    /\ UNCHANGED <<nonlock, writer_at, accept_len, sys_len, open_reqs, replies,
                   io_ready, frames_left>>

\* manager.close_senders().await, the end of Reader::run
CloseSenders ==
    /\ reader_at = "close_senders"
    /\ manager_lock \in {"none", "reader"}
    /\ reader_at' = "done"
    /\ Returned
    /\ UNCHANGED <<nonlock, writer_at, accept_len, sys_len, open_reqs, replies,
                   io_ready, frames_left>>

\* select!: manager.next() yields a frame
NextFrame ==
    /\ writer_at = "select"
    /\ sys_len > 0
    /\ manager_lock = "none"
    /\ sys_len' = sys_len - 1
    /\ writer_at' = "io_send"
    /\ UNCHANGED <<nonlock, manager_lock, reader_at, reader_frame, accept_len,
                   open_reqs, replies, io_ready, frames_left>>

\* io.send(frame).await completes; Err ends the writer
IoSend(ok) ==
    /\ writer_at = "io_send"
    /\ io_ready
    /\ writer_at' = IF ok THEN "select" ELSE "done"
    /\ UNCHANGED <<nonlock, manager_lock, reader_at, reader_frame, accept_len,
                   sys_len, open_reqs, replies, io_ready, frames_left>>

\* select!: open_reqs.next() yields Some(resp_tx)
TakeOpenReq ==
    /\ writer_at = "select"
    /\ open_reqs > 0
    /\ open_reqs' = open_reqs - 1
    /\ writer_at' = "lock_open"
    /\ UNCHANGED <<nonlock, manager_lock, reader_at, reader_frame, accept_len,
                   sys_len, replies, io_ready, frames_left>>

\* let mut manager = self.manager.lock().await
LockForOpen ==
    /\ writer_at = "lock_open"
    /\ manager_lock = "none"
    /\ manager_lock' = "writer"
    /\ writer_at' = "create_stream"
    /\ UNCHANGED <<nonlock, reader_at, reader_frame, accept_len, sys_len,
                   open_reqs, replies, io_ready, frames_left>>

\* manager.create_stream(None, req), resp_tx.send(..) on the oneshot, which
\* does not wait; the guard is dropped at the end of the block
CreateLocal ==
    /\ writer_at = "create_stream"
    /\ manager_lock = "writer"
    /\ manager_lock' = "none"
    /\ replies' = replies + 1
    /\ writer_at' = "select"
    /\ UNCHANGED <<nonlock, reader_at, reader_frame, accept_len, sys_len,
                   open_reqs, io_ready, frames_left>>

\* MuxadoOpen::open sends its oneshot to the writer
CallOpen ==
    /\ writer_at # "done"
    /\ open_reqs + replies < MaxReqs
    /\ open_reqs' = open_reqs + 1
    /\ UNCHANGED <<nonlock, manager_lock, reader_at, reader_frame, writer_at,
                   accept_len, sys_len, replies, io_ready, frames_left>>

\* MuxadoAccept::accept takes a stream off the accept channel
CallAccept ==
    /\ accept_len > 0
    /\ accept_len' = accept_len - 1
    /\ UNCHANGED <<nonlock, manager_lock, reader_at, reader_frame, writer_at,
                   sys_len, open_reqs, replies, io_ready, frames_left>>

\* the transport stops or starts taking frames
Transport ==
    /\ io_ready' = ~io_ready
    /\ UNCHANGED <<nonlock, manager_lock, reader_at, reader_frame, writer_at,
                   accept_len, sys_len, open_reqs, replies, frames_left>>

\* the steps a task makes while it holds the lock or once the lock is free
LockSteps ==
    \/ LockForCreate
    \/ \E ok \in BOOLEAN : CreateRemote(ok)
    \/ LockForFin
    \/ MarkFin
    \/ LockForOpen
    \/ CreateLocal

LockNext ==
    \/ \E f \in LockFrames : TakeFrame(f)
    \/ ReadEnds
    \/ PushAccept
    \/ \E ok \in BOOLEAN : Deliver(ok)
    \/ SysSend
    \/ GoAwayArm
    \/ CloseSenders
    \/ NextFrame
    \/ \E ok \in BOOLEAN : IoSend(ok)
    \/ TakeOpenReq
    \/ CallOpen
    \/ CallAccept
    \/ Transport
    \/ LockSteps

LockStart == Init /\ client = TRUE

\* the mutex wakes a task that waits for it, and a task that holds it runs on
LockSpec == LockStart /\ [][LockNext]_vars /\ WF_vars(LockSteps)

(***************************************************************************)
(* The heartbeat responder (muxado/src/heartbeat.rs, start_responder) on   *)
(* one inbound heartbeat stream.                                           *)
(***************************************************************************)
\* the ids a peer's requester writes, as the 4 bytes of id.to_be_bytes()
BeatIds == {<<1, 2, 3, 4>>, <<0, 0, 5, 0>>}

\* the peer's requester writes the 4 bytes of an id on the stream
PeerBeat(id) ==
    /\ rs_io = "ok"
    /\ ~rs_fin
    /\ Len(rs_sent) < 4 * MaxBeats
    /\ rs_sent' = rs_sent \o id
    /\ rs_wire' = rs_wire \o id
    /\ UNCHANGED <<nonresp, rs_pc, rs_chunk, rs_buf, rs_fin, rs_io, rs_out>>

\* a DATA frame with the next k bytes of the stream arrives
BeatArrives(k) ==
    /\ rs_io = "ok"
    /\ k <= Len(rs_wire)
    /\ rs_buf' = rs_buf \o Take(rs_wire, k)
    /\ rs_wire' = Drop(rs_wire, k)
    /\ UNCHANGED <<nonresp, rs_pc, rs_chunk, rs_sent, rs_fin, rs_io, rs_out>>

\* the peer closes its side of the stream and the FIN arrives
PeerFinishes ==
    /\ rs_io = "ok"
    /\ ~rs_fin
    /\ rs_wire = <<>>
    /\ rs_fin' = TRUE
    /\ UNCHANGED <<nonresp, rs_pc, rs_chunk, rs_sent, rs_wire, rs_buf, rs_io, rs_out>>

\* the stream is reset or the session ends: reads and writes fail from now on
BeatStreamFails ==
    /\ rs_io = "ok"
    /\ rs_io' = "err"
    /\ UNCHANGED <<nonresp, rs_pc, rs_chunk, rs_sent, rs_wire, rs_buf, rs_fin, rs_out>>

\* buf = [0u8; 4] with the n bytes one read put at its front
Filled(bytes) == bytes \o SubSeq(<<0, 0, 0, 0>>, 1, 4 - Len(bytes))

\* stream.read(&mut buf[..]).await: Err ends the task; Ok(n) with the bytes
\* that are buffered, at most 4 of them; Ok(0) at the end of the stream
ResponderRead ==
    /\ rs_pc = "read"
    /\ IF rs_io = "err"
       THEN rs_pc' = "done" /\ UNCHANGED <<rs_chunk, rs_buf>>
       ELSE /\ rs_buf # <<>> \/ rs_fin
            /\ LET n == Min(4, Len(rs_buf)) IN
               /\ rs_chunk' = Filled(Take(rs_buf, n))
               /\ rs_buf' = Drop(rs_buf, n)
            /\ rs_pc' = "write"
    /\ UNCHANGED <<nonresp, rs_sent, rs_wire, rs_fin, rs_io, rs_out>>

\* stream.write_all(&buf[..]).await: Err ends the task, Ok goes round the loop
ResponderWrite ==
    /\ rs_pc = "write"
    /\ IF rs_io = "err"
       THEN rs_pc' = "done" /\ UNCHANGED rs_out
       ELSE /\ Len(rs_out) <= MaxOut
            /\ rs_out' = rs_out \o rs_chunk
            /\ rs_pc' = "read"
    /\ UNCHANGED <<nonresp, rs_chunk, rs_sent, rs_wire, rs_buf, rs_fin, rs_io>>

ResponderNext ==
    \/ \E id \in BeatIds : PeerBeat(id)
    \/ \E k \in 1..4 : BeatArrives(k)
    \/ PeerFinishes
    \/ BeatStreamFails
    \/ ResponderRead
    \/ ResponderWrite

ResponderStart == Init /\ client = TRUE

ResponderSpec == ResponderStart /\ [][ResponderNext]_vars

(***************************************************************************)
(* The flow control of one stream in one direction (stream.rs), modelled   *)
(* from the specification, sections 4.2 and 5.                             *)
(***************************************************************************)
\* the drained amount at which the receiver emits a WND_INC: half the
\* initial window
threshold == (window + 1) \div 2

\* write_all(buf) is called with size bytes
WriteCall(size) ==
    /\ fc_todo = 0
    /\ fc_written + size <= MaxWrite
    /\ fc_todo' = size
    /\ UNCHANGED <<nonflow, fc_written, fc_send_window, fc_data, fc_buf,
                   fc_drained, fc_incs>>

\* write(buf): a DATA frame with up to send_window bytes is sent and the
\* window is decremented; the call waits while send_window is 0
WriteStep ==
    /\ fc_todo > 0
    /\ fc_send_window > 0
    /\ LET n == Min(fc_todo, fc_send_window) IN
       /\ fc_data' = Append(fc_data, n)
       /\ fc_send_window' = fc_send_window - n
       /\ fc_todo' = fc_todo - n
       /\ fc_written' = fc_written + n
    /\ UNCHANGED <<nonflow, fc_buf, fc_drained, fc_incs>>

\* the receiver's reader delivers the next DATA frame to the stream's buffer
DataArrives ==
    /\ fc_data # <<>>
    /\ fc_buf' = fc_buf + Head(fc_data)
    /\ fc_data' = Tail(fc_data)
    /\ UNCHANGED <<nonflow, fc_todo, fc_written, fc_send_window, fc_drained,
                   fc_incs>>

\* the WND_INC a read of k bytes emits: none under any drained amount
grant_never(drained, k) == 0

\* the WND_INC a read of k bytes emits: the drained amount once it has
\* reached the threshold, none (0) below it
grant(drained, k) ==
    IF drained + k >= threshold THEN drained + k ELSE 0

\* read(buf) on the receiver takes k bytes out of the buffer
FlowRead(k) ==
    /\ k \in 1..fc_buf
    /\ fc_buf' = fc_buf - k
    /\ LET g == grant(fc_drained, k) IN
       /\ fc_drained' = fc_drained + k - g
       /\ fc_incs' = IF g > 0 THEN Append(fc_incs, g) ELSE fc_incs
    /\ UNCHANGED <<nonflow, fc_todo, fc_written, fc_send_window, fc_data>>

\* the sender's reader delivers the next WND_INC to the stream
WndIncArrives ==
    /\ fc_incs # <<>>
    /\ fc_send_window' = fc_send_window + Head(fc_incs)
    /\ fc_incs' = Tail(fc_incs)
    /\ UNCHANGED <<nonflow, fc_todo, fc_written, fc_data, fc_buf, fc_drained>>

FlowNext ==
    \/ \E size \in 1..MaxWrite : WriteCall(size)
    \/ WriteStep
    \/ DataArrives
    \/ \E k \in 1..window : FlowRead(k)
    \/ WndIncArrives

FlowStart == Init /\ client = TRUE

\* the tasks run on, and the receiving application keeps reading
FlowSpec ==
    /\ FlowStart /\ [][FlowNext]_vars
    /\ WF_vars(WriteStep) /\ WF_vars(DataArrives)
    /\ WF_vars(\E k \in 1..window : FlowRead(k)) /\ WF_vars(WndIncArrives)

(***************************************************************************)
(* The tunnels of an ngrok session (ngrok/src/session.rs): start_tunnel,   *)
(* close_tunnel and the accept_incoming task around the tunnels map.       *)
(***************************************************************************)
\* what incoming.accept() returns: a connection with the id of its header, a
\* transport (muxado) error, or another error
AcceptConn(id) == [kind |-> "Conn", id |-> id]
AcceptTransport == [kind |-> "Transport", id |-> 0]
AcceptOther == [kind |-> "Other", id |-> 0]

\* the server opens a connection to a tunnel it has answered a listen for
ServerConn(id) ==
    /\ ~borked
    /\ conns_left > 0
    /\ id \in listened
    /\ incoming' = Append(incoming, AcceptConn(id))
    /\ conns_left' = conns_left - 1
    /\ UNCHANGED <<nontunnel, tunnels, tunnels_lock, accept_at, accept_conn,
                   drain_todo, drain_set, chan, rx_open, errs, start_at, start_id,
                   listened, inserted, close_at, close_id, lost, borked>>

\* a stream with a bad header or an unrecognized type arrives
ServerBadStream ==
    /\ ~borked
    /\ conns_left > 0
    /\ incoming' = Append(incoming, AcceptOther)
    /\ conns_left' = conns_left - 1
    /\ UNCHANGED <<nontunnel, tunnels, tunnels_lock, accept_at, accept_conn,
                   drain_todo, drain_set, chan, rx_open, errs, start_at, start_id,
                   listened, inserted, close_at, close_id, lost, borked>>

\* the muxado session fails: the next accept yields the transport error
SessionFails ==
    /\ ~borked
    /\ borked' = TRUE
    /\ incoming' = Append(incoming, AcceptTransport)
    /\ UNCHANGED <<nontunnel, tunnels, tunnels_lock, accept_at, accept_conn,
                   drain_todo, drain_set, chan, rx_open, errs, start_at, start_id,
                   listened, inserted, close_at, close_id, lost, conns_left>>

\* where the loop goes with another accept error: out of the loop as well
after_accept_breaks(r) ==
    IF r.kind = "Conn" THEN "read_lock" ELSE "drain_lock"

\* where the loop goes with what incoming.accept() returned: on with the
\* connection, out of the loop with a transport error, round again otherwise
after_accept(r) ==
    IF r.kind = "Conn" THEN "read_lock"
    ELSE IF r.kind = "Transport" THEN "drain_lock"
    ELSE "accept"

\* incoming.accept().await returns
AcceptReturns ==
    /\ accept_at = "accept"
    /\ incoming # <<>>
    /\ accept_at' = after_accept(Head(incoming))
    /\ accept_conn' = Head(incoming).id
    /\ incoming' = Tail(incoming)
    /\ UNCHANGED <<nontunnel, tunnels, tunnels_lock, drain_todo, drain_set, chan,
                   rx_open, errs, start_at, start_id, listened, inserted,
                   close_at, close_id, lost, borked, conns_left>>

\* let guard = tunnels.read().await
AcceptReadLock ==
    /\ accept_at = "read_lock"
    /\ tunnels_lock = "none"
    /\ tunnels_lock' = "read"
    /\ accept_at' = "send"
    /\ UNCHANGED <<nontunnel, tunnels, incoming, accept_conn, drain_todo, drain_set,
                   chan, rx_open, errs, start_at, start_id, listened, inserted,
                   close_at, close_id, lost, borked, conns_left>>

\* guard.get(&id): no sender, res = Ok(()) and the connection is dropped; a
\* sender, ch.send(Ok(conn)).await, which waits while the channel is full and
\* fails once the receiver is gone; drop(guard)
AcceptSend ==
    /\ accept_at = "send"
    /\ tunnels_lock = "read"
    /\ LET id == accept_conn IN
       IF id \notin tunnels
       THEN /\ lost' = lost \cup {id}
            /\ accept_at' = "accept"
            /\ UNCHANGED chan
       ELSE IF ~rx_open[id]
       THEN /\ accept_at' = "remove"
            /\ UNCHANGED <<chan, lost>>
       ELSE /\ Len(chan[id]) < TunnelChannel
            /\ chan' = [chan EXCEPT ![id] = Append(@, "Conn")]
            /\ accept_at' = "accept"
            /\ UNCHANGED lost
    /\ tunnels_lock' = "none"
    /\ UNCHANGED <<nontunnel, tunnels, incoming, accept_conn, drain_todo, drain_set,
                   rx_open, errs, start_at, start_id, listened, inserted,
                   close_at, close_id, borked, conns_left>>

\* res.is_err(): RwLock::write(&tunnels).await.remove(&id)
AcceptRemove ==
    /\ accept_at = "remove"
    /\ tunnels_lock = "none"
    /\ tunnels' = tunnels \ {accept_conn}
    /\ accept_at' = "accept"
    /\ UNCHANGED <<nontunnel, tunnels_lock, incoming, accept_conn, drain_todo,
                   drain_set, chan, rx_open, errs, start_at, start_id, listened,
                   inserted, close_at, close_id, lost, borked, conns_left>>

\* the orders in which drain() may yield the senders of the set S
Orders(S) ==
    {q \in UNION {[1..n -> S] : n \in {Cardinality(S)}} :
        \A i, j \in DOMAIN q : i # j => q[i] # q[j]}

\* tunnels.write().await.drain(): the map is emptied under the write lock,
\* which is held until the for loop is over
DrainStarts ==
    /\ accept_at = "drain_lock"
    /\ tunnels_lock = "none"
    /\ tunnels_lock' = "write"
    /\ drain_todo' \in Orders(tunnels)
    /\ drain_set' = tunnels
    /\ tunnels' = {}
    /\ accept_at' = "drain"
    /\ UNCHANGED <<nontunnel, incoming, accept_conn, chan, rx_open, errs,
                   start_at, start_id, listened, inserted, close_at, close_id,
                   lost, borked, conns_left>>

\* the for loop dropping a sender without sending the error on it
DrainSend_silent ==
    /\ accept_at = "drain"
    /\ drain_todo # <<>>
    /\ drain_todo' = Tail(drain_todo)
    /\ UNCHANGED <<nontunnel, tunnels, tunnels_lock, incoming, accept_at,
                   accept_conn, drain_set, chan, rx_open, errs, start_at, start_id,
                   listened, inserted, close_at, close_id, lost, borked,
                   conns_left>>

\* let _ = ch.send(Err(error)).await: waits while the channel is full, fails
\* once the receiver is gone, and the failure is ignored
DrainSend ==
    /\ accept_at = "drain"
    /\ drain_todo # <<>>
    /\ LET id == Head(drain_todo) IN
       /\ ~rx_open[id] \/ Len(chan[id]) < TunnelChannel
       /\ chan' = IF rx_open[id] THEN [chan EXCEPT ![id] = Append(@, "Err")]
                  ELSE chan
       /\ errs' = [errs EXCEPT ![id] = @ + 1]
    /\ drain_todo' = Tail(drain_todo)
    /\ UNCHANGED <<nontunnel, tunnels, tunnels_lock, incoming, accept_at,
                   accept_conn, drain_set, rx_open, start_at, start_id, listened,
                   inserted, close_at, close_id, lost, borked, conns_left>>

\* the for loop is over: the write guard is dropped and the task ends
DrainEnds ==
    /\ accept_at = "drain"
    /\ drain_todo = <<>>
    /\ tunnels_lock' = "none"
    /\ accept_at' = "done"
    /\ UNCHANGED <<nontunnel, tunnels, incoming, accept_conn, drain_todo, drain_set,
                   chan, rx_open, errs, start_at, start_id, listened, inserted,
                   close_at, close_id, lost, borked, conns_left>>

\* start_tunnel: client.lock().await, channel(64), client.listen(..) is sent
StartTunnel ==
    /\ start_at = "idle"
    /\ close_at # "unlisten"
    /\ Cardinality(listened) < MaxTunnels
    /\ start_at' = "listen"
    /\ UNCHANGED <<nontunnel, tunnels, tunnels_lock, incoming, accept_at,
                   accept_conn, drain_todo, drain_set, chan, rx_open, errs,
                   start_id, listened, inserted, close_at, close_id, lost,
                   borked, conns_left>>

\* the listen (or listen_label) RPC returns: Err leaves start_tunnel through
\* `?`, Ok carries the id of the tunnel
ListenReturns(ok) ==
    /\ start_at = "listen"
    /\ IF ok
       THEN /\ ~borked
            /\ start_id' = Cardinality(listened) + 1
            /\ listened' = listened \cup {Cardinality(listened) + 1}
            /\ start_at' = "insert"
       ELSE /\ start_at' = "idle"
            /\ UNCHANGED <<start_id, listened>>
    /\ UNCHANGED <<nontunnel, tunnels, tunnels_lock, incoming, accept_at,
                   accept_conn, drain_todo, drain_set, chan, rx_open, errs,
                   inserted, close_at, close_id, lost, borked, conns_left>>

\* let mut tunnels = self.tunnels.write().await; tunnels.insert(id, tx);
\* the Tunnel is returned
StartInsert ==
    /\ start_at = "insert"
    /\ tunnels_lock = "none"
    /\ tunnels' = tunnels \cup {start_id}
    /\ inserted' = inserted \cup {start_id}
    /\ start_at' = "idle"
    /\ UNCHANGED <<nontunnel, tunnels_lock, incoming, accept_at, accept_conn,
                   drain_todo, drain_set, chan, rx_open, errs, start_id, listened,
                   close_at, close_id, lost, borked, conns_left>>

\* close_tunnel(id): client.lock().await.unlisten(id) is sent
CloseTunnel(id) ==
    /\ close_at = "idle"
    /\ start_at = "idle"
    /\ id \in inserted
    /\ close_id' = id
    /\ close_at' = "unlisten"
    /\ UNCHANGED <<nontunnel, tunnels, tunnels_lock, incoming, accept_at,
                   accept_conn, drain_todo, drain_set, chan, rx_open, errs,
                   start_at, start_id, listened, inserted, lost, borked,
                   conns_left>>

\* the unlisten RPC returns: Err leaves close_tunnel through `?`
UnlistenReturns(ok) ==
    /\ close_at = "unlisten"
    /\ ok => ~borked
    /\ close_at' = IF ok THEN "remove" ELSE "idle"
    /\ UNCHANGED <<nontunnel, tunnels, tunnels_lock, incoming, accept_at,
                   accept_conn, drain_todo, drain_set, chan, rx_open, errs,
                   start_at, start_id, listened, inserted, close_id, lost,
                   borked, conns_left>>

\* self.tunnels.write().await.remove(id)
CloseRemove ==
    /\ close_at = "remove"
    /\ tunnels_lock = "none"
    /\ tunnels' = tunnels \ {close_id}
    /\ close_at' = "idle"
    /\ UNCHANGED <<nontunnel, tunnels_lock, incoming, accept_at, accept_conn,
                   drain_todo, drain_set, chan, rx_open, errs, start_at, start_id,
                   listened, inserted, close_id, lost, borked, conns_left>>

\* the owner of a Tunnel takes the next message off its channel
TunnelRecv(id) ==
    /\ rx_open[id]
    /\ chan[id] # <<>>
    /\ chan' = [chan EXCEPT ![id] = Tail(@)]
    /\ UNCHANGED <<nontunnel, tunnels, tunnels_lock, incoming, accept_at,
                   accept_conn, drain_todo, drain_set, rx_open, errs, start_at,
                   start_id, listened, inserted, close_at, close_id, lost,
                   borked, conns_left>>

\* the owner of a Tunnel drops it, and its receiver with it
TunnelDrop(id) ==
    /\ id \in inserted
    /\ rx_open[id]
    /\ rx_open' = [rx_open EXCEPT ![id] = FALSE]
    /\ chan' = [chan EXCEPT ![id] = <<>>]
    /\ UNCHANGED <<nontunnel, tunnels, tunnels_lock, incoming, accept_at,
                   accept_conn, drain_todo, drain_set, errs, start_at, start_id,
                   listened, inserted, close_at, close_id, lost, borked,
                   conns_left>>

TunnelNext ==
    \/ \E id \in TunnelIds : ServerConn(id)
    \/ ServerBadStream
    \/ SessionFails
    \/ AcceptReturns
    \/ AcceptReadLock
    \/ AcceptSend
    \/ AcceptRemove
    \/ DrainStarts
    \/ DrainSend
    \/ DrainEnds
    \/ StartTunnel
    \/ \E ok \in BOOLEAN : ListenReturns(ok)
    \/ StartInsert
    \/ \E id \in TunnelIds : CloseTunnel(id)
    \/ \E ok \in BOOLEAN : UnlistenReturns(ok)
    \/ CloseRemove
    \/ \E id \in TunnelIds : TunnelRecv(id)
    \/ \E id \in TunnelIds : TunnelDrop(id)

TunnelStart == Init /\ client = TRUE

TunnelSpec == TunnelStart /\ [][TunnelNext]_vars

(***************************************************************************)
(* The claims.                                                             *)
(***************************************************************************)
\* the bytes written so far on stream id by this endpoint and by the peer
LocalWritten(id) == IF id \in DOMAIN st THEN Bytes(1, st[id].wr) ELSE <<>>

PeerWritten(id) ==
    IF id \in DOMAIN peer.streams THEN Bytes(1, peer.streams[id].sent) ELSE <<>>

\* C1: on every stream and in both directions, the bytes the receiver's reads
\* returned are a prefix of the bytes the sender wrote, in the same order,
\* nothing duplicated or dropped; a read reports EOF only when every byte the
\* sender wrote before closing has been returned: at EOF the two are equal.
C1_BytesInOrder ==
    /\ \A id \in DOMAIN st :
         /\ IsPrefix(st[id].rd, PeerWritten(id))
         /\ st[id].eof => st[id].rd = PeerWritten(id)
    /\ \A id \in DOMAIN peer.streams :
         /\ IsPrefix(peer.streams[id].recv, LocalWritten(id))
         /\ peer.streams[id].fin_recv => peer.streams[id].recv = LocalWritten(id)

\* the reads of a stream returned two bytes and then EOF
C1_Witness ==
    \E id \in DOMAIN st :
        /\ st[id].eof
        /\ st[id].rd = <<1, 2>>
        /\ last_stream_processed = id

\* C2: on every stream 0 <= send_window <= initial window; a send takes the
\* DATA length off the window and a received WND_INC adds to it, so the DATA
\* bytes sent never exceed the initial window plus the WND_INC received.
C2_SendWindow ==
    \A id \in DOMAIN st :
        /\ 0 <= st[id].send_window
        /\ st[id].send_window <= window
        /\ st[id].send_window = window + st[id].incs - st[id].wr
        /\ st[id].wr <= window + st[id].incs

\* a stream used its whole window and was granted window again
C2_Witness ==
    \E id \in DOMAIN st :
        /\ st[id].wr = window
        /\ st[id].incs > 0
        /\ st[id].send_window > 0

\* C3: the number of live streams registered in the stream manager is at
\* most stream_limit, whatever was opened, accepted, closed and reset.
C3_StreamLimit == LiveStreams(manager) <= stream_limit

\* the manager is at the limit and refused a local open
C3_Witness ==
    /\ LiveStreams(manager) = stream_limit
    /\ openRes = "StreamsExhausted"

IdsOf(isClient, ids) ==
    \A i \in 1..Len(ids) : ids[i] = (IF isClient THEN 1 ELSE 2) + 2 * (i - 1)

Range(q) == {q[i] : i \in 1..Len(q)}

\* C5: the ids an endpoint allocates for the streams it opens start at 1
\* (client) or 2 (server) and advance by 2: they are strictly increasing, of
\* the endpoint's parity and never 0, and the two endpoints never allocate
\* the same id.
C5_IdAllocation ==
    /\ IdsOf(client, allocated)
    /\ IdsOf(~client, peer.allocated)
    /\ \A i \in 1..Len(allocated) :
         /\ allocated[i] # NoId
         /\ (allocated[i] % 2 = 1) = client
         /\ i > 1 => allocated[i] > allocated[i - 1]
    /\ Range(allocated) \cap Range(peer.allocated) = {}

\* this endpoint opened two streams and the peer one
C5_Witness ==
    /\ Len(allocated) = 2
    /\ Len(peer.allocated) = 1

\* the reader takes the frame Head(wire_in) off the transport and handles it
\* in this step
ReaderTakes ==
    /\ rpc = "read"
    /\ wire_in # <<>>
    /\ io_in # "err"
    /\ wire_in' = Tail(wire_in)

\* a SYN frame that finds the manager at its stream limit
RefusedSyn(f) ==
    /\ f.syn
    /\ f.typ = "Data"
    /\ manager.session_error = "None"
    /\ RemoteIdOk(client, manager.last_remote_id, f.id)
    /\ LiveStreams(manager) >= stream_limit

\* C4: a remote SYN that arrives while live_streams >= stream_limit is
\* answered with RST(REFUSED_STREAM) for its id, creates no stream, puts
\* nothing in the accept queue, and the session keeps running: the reader
\* goes on reading and the open streams stay as they are.
C4_RefusedSynKeepsSession ==
    [][ReaderTakes /\ RefusedSyn(Head(wire_in)) =>
            /\ manager'.sys = Append(manager.sys,
                                     FrameRst(Head(wire_in).id, "StreamRefused"))
            /\ manager'.streams = manager.streams
            /\ st' = st
            /\ acceptq' = acceptq
            /\ rpc' = "read"]_vars

Live == {id \in DOMAIN manager.streams : st[id].err = "None"}

Fails(s) ==
    /\ ReadResult(s) = "SessionClosed"
    /\ WriteResult(s) = "SessionClosed"

\* C6: once the reader has handled a GOAWAY frame, every stream that was
\* live then fails its next read and its next write with SESSION_CLOSED,
\* reads and writes that were waiting included; from then on none of them
\* waits or succeeds.
C6_GoAwayFailsStreams ==
    [][/\ ReaderTakes /\ Head(wire_in).typ = "GoAway" =>
               /\ rpc' = "done"
               /\ \A id \in Live : Fails(st'[id])
       /\ \A id \in DOMAIN st :
            Fails(st[id]) => id \in DOMAIN st' /\ Fails(st'[id])]_vars

\* a GOAWAY was handled with two streams live, one of them waiting in a read
C6_Witness ==
    /\ manager.session_error = "NoError"
    /\ rpc = "done"
    /\ Cardinality({id \in DOMAIN st : Fails(st[id])}) >= 2
    /\ \E id \in DOMAIN st : Fails(st[id]) /\ st[id].held /\ st[id].buf = <<>>

\* a session-fatal event has been processed: the reader stopped (GOAWAY from
\* the peer, EOF or an error of the transport) or the writer stopped (a write
\* to the transport failed)
Fatal == rpc = "done" \/ wpc = "done"

\* open() returns in this step
OpenReturns == openpc' = "idle" /\ (openpc = "sent" \/ openRes' # openRes)

\* C7: after a session-fatal event has been processed every open() returns
\* SESSION_CLOSED, never a stream, and it does not wait forever: whether the
\* writer still runs or has stopped, the answer to a waiting open() is ready.
C7_OpenFailsAfterFatal ==
    /\ [][Fatal /\ OpenReturns => openRes' = "SessionClosed"]_vars
    /\ [](Fatal /\ openpc = "sent" => ENABLED (WriterOpen \/ OpenCancelled))

\* the reader stopped, the writer runs, and it answered an open() with
\* SESSION_CLOSED
C7_Witness ==
    /\ rpc = "done"
    /\ wpc = "run"
    /\ openpc = "idle"
    /\ openRes = "SessionClosed"

\* C8: after the reader stopped, accept() on the accept half never waits;
\* once the accept queue is empty it returns None, on every call from then
\* on; and, unless the accept half is dropped, it does eventually return None.
C8_AcceptEndsWithNone ==
    /\ [](rpc = "done" /\ accept_rx = "open" => ENABLED Accept)
    /\ [][rpc = "done" /\ acceptq = <<>> =>
            /\ rpc' = "done" /\ acceptq' = <<>>
            /\ acceptRes' \in {acceptRes, "None"}]_vars
    /\ (rpc = "done" /\ accept_rx = "open")
          ~> (acceptRes = "None" \/ accept_rx = "dropped")

\* the reader stopped, a stream the peer opened was accepted, and accept()
\* returned None
C8_Witness ==
    /\ rpc = "done"
    /\ acceptRes = "None"
    /\ \E id \in DOMAIN st : st[id].held /\ ~st[id].syn_pending /\ st[id].wr = 0
                             /\ id \notin Range(allocated)

\* C9: a frame of an invalid type makes the reader emit GOAWAY(PROTOCOL_ERROR,
\* "invalid frame") on the system channel and then stop: it handles no
\* further frame and the session is torn down.
C9_InvalidFrameStopsReader ==
    [][ReaderTakes /\ Head(wire_in).typ = "Invalid" =>
            /\ manager'.sys = Append(manager.sys,
                                     FrameGoAway(last_stream_processed, "Protocol",
                                                 "invalid frame"))
            /\ rpc' = "done"
            /\ manager'.session_error # "None"]_vars

\* a DATA, WND_INC or RST frame without SYN on an id that is not in the manager
Stray(f) ==
    /\ f.typ \in {"Data", "WndInc", "Rst"}
    /\ ~f.syn
    /\ f.id \notin DOMAIN manager.streams

\* C10: a DATA, WND_INC or RST frame without SYN for an id that is not in the
\* manager makes the reader emit exactly one RST for that id on the system
\* channel; it creates no stream, changes no stream, and the reader goes on.
C10_StrayFrameGetsRst ==
    [][ReaderTakes /\ Stray(Head(wire_in)) =>
            /\ Len(manager'.sys) = Len(manager.sys) + 1
            /\ SubSeq(manager'.sys, 1, Len(manager.sys)) = manager.sys
            /\ manager'.sys[Len(manager'.sys)].typ = "Rst"
            /\ manager'.sys[Len(manager'.sys)].id = Head(wire_in).id
            /\ st' = st
            /\ manager'.streams = manager.streams
            /\ acceptq' = acceptq
            /\ rpc' = "read"]_vars

\* the reader answered a frame on an unknown id with an RST that is still on
\* the system channel; it goes on reading, and a live stream holds the data
\* the reader delivered to it
C10_Witness ==
    /\ \E i \in 1..Len(manager.sys) :
          manager.sys[i] = FrameRst(StrayId, "StreamClosed")
    /\ rpc = "read"
    /\ \E id \in Live : last_stream_processed = id /\ st[id].buf # <<>>

\* the FIN frames and the RST frames of stream id waiting for the writer
FinsOut(m, id) ==
    Len(SelectSeq(m.out, LAMBDA f : f.id = id /\ f.typ = "Data" /\ f.fin))

RstsOut(m, id) ==
    Len(SelectSeq(m.out, LAMBDA f : f.id = id /\ f.typ = "Rst"))

\* C11: in every state and for every stream the application holds, a second
\* close_write leaves the stream state and the frames queued for the wire
\* exactly as the first call left them, and it leaves a single FIN; the same
\* for reset and its RST.
C11_CloseResetIdempotent ==
    \A id \in Held :
        LET c1 == close_write(manager, st, id)
            c2 == close_write(c1.m, c1.st, id)
            r1 == reset(manager, st, id)
            r2 == reset(r1.m, r1.st, id)
        IN  /\ c2 = c1
            /\ FinsOut(c2.m, id) <= 1
            /\ r2 = r1
            /\ RstsOut(r2.m, id) <= 1

\* close_write and then reset were called on a stream, and the FIN and the
\* RST they emitted are both queued for the writer
C11_Witness ==
    \E id \in Held :
        /\ st[id].local_write_closed
        /\ st[id].err = "Cancel"
        /\ FinsOut(manager, id) = 1
        /\ RstsOut(manager, id) = 1

\* this endpoint's FIN on stream id was written to the transport
FinSent(id) == id \in DOMAIN peer.streams /\ peer.streams[id].fin_recv

\* the peer's FIN on stream id was delivered to the stream by the reader
FinDelivered(id) == st[id].err = "None" /\ st[id].remote_write_closed

\* the writer takes the frame NextOutgoing(manager) from the manager in this step
WriterTakes ==
    /\ wpc = "run"
    /\ HasOutgoing(manager)
    /\ Len(manager'.sys) + Len(manager'.out) < Len(manager.sys) + Len(manager.out)

\* C12: a stream whose FIN was sent and whose peer's FIN was received is no
\* longer in the manager (and so not counted as live); the step in which the
\* reader handles an RST for a stream, and the step in which the writer takes
\* an RST of a stream to the wire, remove that stream from the manager.
C12_ClosedStreamsLeaveManager ==
    /\ [](\A id \in DOMAIN st :
             FinSent(id) /\ FinDelivered(id) => id \notin DOMAIN manager.streams)
    /\ [][/\ ReaderTakes /\ Head(wire_in).typ = "Rst" =>
                Head(wire_in).id \notin DOMAIN manager'.streams
          /\ WriterTakes /\ NextOutgoing(manager).typ = "Rst" =>
                NextOutgoing(manager).id \notin DOMAIN manager'.streams]_vars

\* the peer opened a stream and closed it at once, this endpoint accepted it,
\* read EOF with zero bytes and closed it, its FIN was written: no stream is
\* left in the manager
C12_Witness ==
    \E id \in Held :
        /\ id \in Range(peer.allocated)
        /\ st[id].eof /\ st[id].rd = <<>>
        /\ FinSent(id) /\ FinDelivered(id)
        /\ manager.streams = <<>>

\* a SYN frame the manager accepts as a new stream of the peer
AcceptedSyn(f) ==
    /\ f.syn
    /\ f.typ = "Data"
    /\ manager.session_error = "None"
    /\ RemoteIdOk(client, manager.last_remote_id, f.id)
    /\ LiveStreams(manager) < stream_limit

\* C14: a SYN that arrives while the accept queue holds accept_queue_size
\* streams leaves the reader waiting in the push of the new stream, the
\* frame's payload not yet delivered; while it waits it takes no frame from
\* the transport and stays waiting as long as no accept() takes a stream; once
\* a stream was taken it can resume, it resumes with the frame it was
\* handling (delivered to its stream, or answered with an RST when the stream
\* was reset meanwhile), and frames leave the transport only from the head,
\* in order.
C14_FullAcceptQueueBlocksReader ==
    /\ [][ReaderTakes /\ AcceptedSyn(Head(wire_in))
                      /\ Len(acceptq) >= accept_queue_size =>
             /\ rpc' = "accept_send"
             /\ rframe' = Head(wire_in)
             /\ st'[Head(wire_in).id].buf = <<>>]_vars
    /\ [][rpc = "accept_send" =>
             /\ IsPrefix(wire_in, wire_in')
             /\ (Len(acceptq) > accept_queue_size /\ Len(acceptq') >= Len(acceptq)
                    => rpc' = "accept_send")
             /\ (rpc' # "accept_send" =>
                    /\ acceptq' = acceptq
                    /\ \/ /\ last_stream_processed' = rframe.id
                          /\ st'[rframe.id].buf = st[rframe.id].buf \o rframe.data
                       \/ /\ rframe.id \notin DOMAIN manager.streams
                          /\ manager'.sys = Append(manager.sys,
                                                   FrameRst(rframe.id, "StreamClosed")))]_vars
    /\ [](rpc = "accept_send" /\ Len(acceptq) <= accept_queue_size
             => ENABLED ReaderAcceptSend)
    /\ [][IsPrefix(wire_in, wire_in')
          \/ (rpc = "read" /\ wire_in # <<>> /\ wire_in' = Tail(wire_in))]_vars

\* the reader waits in the push of a stream with the accept queue over its
\* size, the frame's byte undelivered and a later frame waiting on the transport
C14_Witness ==
    /\ rpc = "accept_send"
    /\ Len(acceptq) > accept_queue_size
    /\ rframe.data # <<>>
    /\ st[rframe.id].buf = <<>>
    /\ wire_in # <<>>

\* C13: every stream that has data to send and send_window > 0 eventually
\* has a frame written to the transport, whatever the other streams have
\* ready and however often they are refilled.
C13_FairMultiplex == \A i \in MuxIds : Ready(i) ~> (wrote = i)

\* a frame of a stream was written while a stream with a smaller id had its
\* whole backlog ready
C13_Witness ==
    \E i, j \in MuxIds :
        /\ j < i
        /\ wrote = i
        /\ backlog[j] = MaxData
        /\ Ready(j)

\* a half of the split session has been dropped
HalfDropped == openpc = "dropped" \/ accept_rx = "dropped"

\* C15: once the open half or the accept half of the session is dropped, the
\* reader and the writer eventually both have ended and no stream is left
\* without the session error: every stream of the manager is drained.
C15_DroppedHalfEndsSession ==
    HalfDropped ~> (rpc = "done" /\ wpc = "done" /\ Live = {})

\* the scheduler runs a caller of accept() that is ready
FairSpec == Spec /\ WF_vars(Accept)

\* the scheduler runs every task that is ready: the reader, the writer and a
\* caller of accept()
LiveSpec ==
    /\ Spec
    /\ WF_vars(ReaderRecv) /\ WF_vars(ReaderAcceptSend) /\ WF_vars(ReaderEof)
    /\ WF_vars(WriterSend) /\ WF_vars(WriterOpen) /\ WF_vars(WriterComplete)
    /\ WF_vars(Accept)

\* the monitor's deadline has passed and no latency has arrived, with the
\* requester still there
Expired == mon_pc = "wait" /\ deadline = 0 /\ mark = <<>> /\ rq_pc # "done"

\* a step of the monitor
MonitorStep == cb_last' # cb_last \/ mon_pc' # mon_pc \/ deadline' > deadline

\* C16: each time interval + tolerance has passed since the last reset of the
\* deadline without a latency having arrived, the monitor invokes the callback
\* with a latency of 0 and stays alive: it sets the deadline anew, to the
\* interval plus the tolerance as they are read then, so the callback is
\* invoked again at every later expiry for as long as the requester runs
C16_MonitorReportsEveryExpiry ==
    /\ [](Expired => ENABLED MonTimeout)
    /\ [][Expired /\ MonitorStep =>
            /\ cb_last' = "Zero"
            /\ mon_pc' = "wait"
            /\ deadline' = durations.interval + durations.tolerance]_vars
    /\ [][mon_pc = "wait" /\ mon_pc' = "done" => rq_pc = "done" /\ mark = <<>>]_vars
    /\ [][cb_last' = "Zero" /\ MonitorStep /\ mon_pc' = "wait" =>
            deadline = 0 /\ mark = <<>>]_vars
    /\ (Expired ~> (mon_pc = "wait" /\ deadline > 0) \/ rq_pc = "done")

\* the deadline has expired a second time, after the callback got 0 for the
\* first time
C16_Witness ==
    /\ Expired
    /\ cb_last = "Zero"
    /\ hb_io = "ok"

\* the 4 bytes read back differ from the id that was sent
Mismatch == rq_pc = "read" /\ echo # NoId /\ echo # rq_id

\* the mux session runs: reader and writer run, and open() can be called
SessionRuns ==
    /\ manager.session_error = "None"
    /\ rpc = "read"
    /\ wpc = "run"
    /\ ENABLED Open

\* C17: when the 4 bytes read back differ from the id that was sent, the
\* requester exits: no latency of that exchange reaches the caller of beat(),
\* the monitor or the callback; no heartbeat is written afterwards; and the mux
\* session is left as it was, running, with open() still there to be called
C17_MismatchEndsRequesterOnly ==
    /\ [][Mismatch /\ rq_pc' # rq_pc =>
            /\ rq_pc' = "done"
            /\ beat_res' = beat_res
            /\ mark' = mark
            /\ cb_last' = cb_last
            /\ UNCHANGED svars]_vars
    /\ [][rq_pc = "done" =>
            rq_pc' = "done" /\ rq_id' = NoId /\ Len(mark') <= Len(mark)]_vars
    /\ [](rq_pc = "done" => \A id \in HbIds : ~ENABLED RqWrite(id))
    /\ [](rq_pc = "done" => SessionRuns)

\* the requester has exited on a wrong echo while a beat() waited for it, and
\* the caller of beat() got an error
C17_Witness ==
    /\ rq_pc = "done"
    /\ hb_io = "ok"
    /\ beat_res = "ConnectionReset"
    /\ mon_pc = "done"
    /\ SessionRuns

\* C18: when the requester has exited before beat() is called, beat() fails
\* with NotConnected: it returns at once, it does not wait and it returns no
\* latency
C18_BeatAfterExitNotConnected ==
    /\ [](rq_pc = "done" /\ ctl = "held" /\ beat_pc = "idle" => ENABLED Beat)
    /\ [][rq_pc = "done" /\ ctl = "held" /\ beat_pc = "idle" /\
          (beat_res' # beat_res \/ beat_pc' # beat_pc \/ on_demand' # on_demand) =>
            /\ beat_res' = "NotConnected"
            /\ beat_pc' = "idle"
            /\ on_demand' = <<>>]_vars
    /\ [](beat_res = "NotConnected" => rq_pc = "done")

\* beat() has failed with NotConnected after an exchange that had succeeded
C18_Witness ==
    /\ rq_pc = "done"
    /\ beat_res = "NotConnected"
    /\ beat_pc = "idle"
    /\ cb_last = Latency

\* the 4 bytes read back are the id that was sent, and the requester goes on
Success == rq_pc = "read" /\ hb_io = "ok" /\ echo = rq_id /\ rq_pc' # rq_pc

\* C19: the latency of a successful exchange goes to one destination: to the
\* reply channel of the beat() request that triggered the exchange when there
\* is one, and then not to the monitor; to the monitor otherwise, and then to no
\* caller of beat(). The monitor gets latencies in no other way, and a caller
\* of beat() gets a latency only from the exchange its request triggered.
C19_LatencyToOneDestination ==
    /\ [][Success /\ resp_chan = "Some" =>
            /\ beat_res' = Latency
            /\ beat_pc = "wait" /\ beat_pc' = "idle"
            /\ mark' = mark
            /\ rq_pc' = "select"]_vars
    /\ [][Success /\ resp_chan = "None" =>
            /\ beat_res' = beat_res /\ beat_pc' = beat_pc
            /\ mark' = mark
            /\ rq_pc' = "mark"]_vars
    /\ [][rq_pc = "mark" /\ rq_pc' # rq_pc =>
            /\ mark' = IF mon_pc = "wait" THEN <<Latency>> ELSE mark
            /\ beat_res' = beat_res /\ beat_pc' = beat_pc
            /\ rq_pc' = "select"]_vars
    /\ [][Len(mark') > Len(mark) => rq_pc = "mark"]_vars
    /\ [][beat_res' = Latency /\ beat_res # Latency => Success /\ resp_chan = "Some"]_vars
    /\ [](rq_pc = "mark" => resp_chan = "None")

\* a beat() got its latency while the latency of an earlier exchange, triggered
\* by a tick, had gone to the monitor and on to the callback
C19_Witness ==
    /\ beat_res = Latency
    /\ beat_pc = "idle"
    /\ cb_last = Latency
    /\ mark = <<>>
    /\ rq_pc = "select"

\* a stream of the heartbeat type
IsHeartbeat(s) == s.typ = HEARTBEAT_TYPE

IsOther(s) == s.typ # HEARTBEAT_TYPE

\* C20: accept_typed of the Heartbeat wrapper never returns a stream of the
\* heartbeat type: each such stream the inner session yields goes to a new
\* responder and the accept goes on; every other stream the inner session
\* yields is returned, in the order the inner session yielded them; and an
\* error of the inner session's accept is what accept_typed returns
C20_AcceptFiltersHeartbeats ==
    /\ [](\A k \in 1..Len(returned) : returned[k].typ # HEARTBEAT_TYPE)
    /\ [](acc_res.typ # HEARTBEAT_TYPE)
    /\ [](responders = SelectSeq(taken, IsHeartbeat))
    /\ [](returned = SelectSeq(taken, IsOther))
    /\ [][Len(taken') > Len(taken) /\ IsHeartbeat(Head(inbound)) =>
            /\ responders' = Append(responders, Head(inbound))
            /\ acc_pc' = "loop"
            /\ acc_res' = NoResult]_vars
    /\ [][Len(taken') > Len(taken) /\ IsOther(Head(inbound)) =>
            /\ acc_res' = Ok(Head(inbound))
            /\ acc_pc' = "idle"]_vars
    /\ [][acc_pc = "loop" /\ acc_pc' = "idle" /\ taken' = taken =>
            acc_res' = Err(inner) /\ inner \in InnerErrors]_vars

\* an accept has passed a heartbeat stream to a responder and returned the
\* stream after it; the next accept returned the error of the inner session
C20_Witness ==
    /\ Len(responders) >= 1
    /\ Len(returned) >= 1
    /\ returned[1].n > responders[1].n
    /\ acc_res.err \in InnerErrors
    /\ acc_pc = "idle"

\* C21: open_typed of the Heartbeat wrapper, or of the open half split_typed
\* makes of it, called with the heartbeat type returns the error StreamRefused
\* and opens no stream on the inner session; called with any other type it
\* returns what open_typed of the inner session returns, and the inner session
\* has opened what it opened for that call
C21_OpenRefusesHeartbeatType ==
    /\ [][open_typ' = HEARTBEAT_TYPE /\ <<open_typ, open_res, opened>>' # <<open_typ, open_res, opened>> =>
            /\ open_res' = Err("StreamRefused")
            /\ opened' = opened]_vars
    /\ [][open_typ' # HEARTBEAT_TYPE /\ <<open_typ, open_res, opened>>' # <<open_typ, open_res, opened>> =>
            /\ open_res' = inner_open_typed(inner, opened, open_typ').res
            /\ opened' = inner_open_typed(inner, opened, open_typ').opened]_vars
    /\ [](\A k \in 1..Len(opened) : opened[k].typ # HEARTBEAT_TYPE)
    /\ [](\A t \in StreamTypes : Len(opened) < MaxOpened => ENABLED OpenTyped(t))

\* the open half has refused the heartbeat type after it had opened a stream
\* of another type on the inner session
C21_Witness ==
    /\ halves = "split"
    /\ open_typ = HEARTBEAT_TYPE
    /\ open_res = Err("StreamRefused")
    /\ Len(opened) = 1
    /\ inner = "open"

\* C22: the interval and the tolerance are read again at each cycle: whenever
\* the requester schedules its next tick, the period is the interval as it was
\* last set, and whenever the monitor sets a deadline, it is the interval plus
\* the tolerance as they were last set
C22_DurationsRereadEachCycle ==
    /\ [][ticker' > ticker => ticker' = durations.interval]_vars
    /\ [][deadline' > deadline =>
            deadline' = durations.interval + durations.tolerance]_vars

\* C23: on a typed stream the opener writes the 4 bytes of the type, most
\* significant byte first, before any user byte, and the accepter takes exactly
\* those 4 bytes before it exposes the stream: the type on the accepted handle
\* is the type open_typed was called with, and the user bytes the accepter
\* reads are the user bytes the opener wrote, in order, without the tag
C23_TypedStreamTag ==
    /\ [](ts_pc = "open" /\ ts_apc = "tag" =>
            ts_tag \o ts_buf \o ts_wire = to_be_bytes(ts_typ) \o ts_sent)
    /\ [](ts_apc = "tag" => ts_got = <<>> /\ ts_atyp = NoType)
    /\ [](ts_apc = "open" =>
            /\ ts_atyp = ts_typ
            /\ ts_tag = to_be_bytes(ts_typ)
            /\ ts_got = Take(ts_sent, Len(ts_got))
            /\ ts_buf \o ts_wire = Drop(ts_sent, Len(ts_got)))
    /\ [][ts_pc = "none" /\ ts_pc' = "open" =>
            ts_sent = <<>> /\ ts_wire' = to_be_bytes(ts_typ')]_vars
    /\ [](to_be_bytes(U32(65535, 65535)) = HEARTBEAT_TYPE)

\* the accepter has read all the user bytes of a stream whose tag arrived in
\* pieces and whose type has different bytes
C23_Witness ==
    /\ ts_apc = "open"
    /\ ts_typ = U32(0, 256)
    /\ ts_atyp = ts_typ
    /\ Len(ts_sent) = MaxUser
    /\ ts_got = ts_sent
    /\ ts_got[1] = 0

\* C24: the heartbeat tolerance connect reports to the server in AuthExtra is
\* the tolerance the builder was configured with, or the default tolerance
\* when none was set, and the interval it reports is the configured or the
\* default interval
C24_AuthReportsConfiguredHeartbeat ==
    [][connected' # connected /\ connected'.res = "Auth" =>
        /\ connected'.heartbeat_interval
             = heartbeat_config(heartbeat_interval, heartbeat_tolerance).interval
        /\ connected'.heartbeat_tolerance
             = heartbeat_config(heartbeat_interval, heartbeat_tolerance).tolerance]_vars

\* a DATA frame without SYN for a stream to which a FIN was delivered
AfterFin(f) ==
    /\ f.typ = "Data"
    /\ ~f.syn
    /\ f.id \in DOMAIN st
    /\ \/ FinDelivered(f.id)
       \/ f.id \in DOMAIN manager.streams /\ manager.streams[f.id].data_write_closed

\* C25: once a DATA frame with FIN has been delivered to a stream, a later
\* DATA frame of the peer on that id, with or without FIN, is an error of that
\* stream only: its bytes are not buffered, an RST for that id goes to the
\* system channel, the stream is not in the manager afterwards and, if it
\* still was, it gets the protocol error; the other streams, the reader and
\* the session error are as before
C25_DataAfterFinResetsStream ==
    [][ReaderTakes /\ AfterFin(Head(wire_in)) =>
        LET f == Head(wire_in) IN
        /\ st'[f.id].buf = st[f.id].buf
        /\ st'[f.id].rd = st[f.id].rd
        /\ \E e \in {"Protocol", "StreamClosed"} :
              manager'.sys = Append(manager.sys, FrameRst(f.id, e))
        /\ f.id \in DOMAIN manager.streams =>
              manager'.sys = Append(manager.sys, FrameRst(f.id, "Protocol"))
              /\ st'[f.id] = Latch(st[f.id], "Protocol")
        /\ f.id \notin DOMAIN manager'.streams
        /\ \A j \in DOMAIN st \ {f.id} :
              /\ st'[j] = st[j]
              /\ j \in DOMAIN manager'.streams <=> j \in DOMAIN manager.streams
        /\ DOMAIN st' = DOMAIN st
        /\ rpc' = "read"
        /\ manager'.session_error = manager.session_error
        /\ acceptq' = acceptq]_vars

\* the reader has answered a DATA frame after FIN with an RST while another
\* stream of the peer stays open with its bytes
C25_Witness ==
    \E id \in DOMAIN st : \E j \in DOMAIN manager.streams :
        /\ j # id
        /\ st[id].remote_write_closed
        /\ st[id].err = "Protocol"
        /\ id \notin DOMAIN manager.streams
        /\ st[j].err = "None"
        /\ \E k \in 1..Len(manager.sys) : manager.sys[k] = FrameRst(id, "Protocol")
        /\ rpc = "read"
        /\ manager.session_error = "None"

\* a SYN frame whose id has the wrong parity for the peer or is not above
\* every id seen from the peer
BadSyn(f) == f.syn /\ ~RemoteIdOk(client, manager.last_remote_id, f.id)

\* C26: when the reader takes a SYN whose id has the wrong parity for the peer
\* or is not above every id seen from the peer, no stream is created and none
\* is queued for accept, and a GOAWAY frame for the peer goes to the system
\* channel before the session stops
C26_BadSynGetsGoAway ==
    [][ReaderTakes /\ BadSyn(Head(wire_in)) /\ manager.session_error = "None" =>
        /\ DOMAIN st' = DOMAIN st
        /\ acceptq' = acceptq
        /\ Len(manager'.sys) = Len(manager.sys) + 1
        /\ manager'.sys[Len(manager'.sys)].typ = "GoAway"]_vars

\* C27: when a write to the transport fails the writer exits, and every stream
\* that is live then fails its next read and its next write with the session
\* error; with the writer gone no write of a stream succeeds or waits
C27_WriteFailureFailsStreams ==
    /\ [][wpc = "run" /\ wpc' = "done" => \A id \in Live : Fails(st'[id])]_vars
    /\ [](wpc = "done" =>
            \A id \in DOMAIN st : WriteResult(st[id]) \notin {"Ok", "Pending"})

\* the frame the reader handles next: the SYN frame it held while the accept
\* channel was full, or the one it takes off the transport
HandledFrame ==
    IF rpc = "accept_send" THEN rframe
    ELSE IF wire_in # <<>> THEN Head(wire_in)
    ELSE NoFrame

\* the reader handles that frame in this step
ReaderHandles == ReaderTakes \/ (rpc = "accept_send" /\ rpc' # rpc)

StreamFrame(f) == f.typ \in {"Data", "WndInc", "Rst"}

\* the frames added to the system channel in this step
NewSys == SubSeq(manager'.sys, Len(manager.sys) + 1, Len(manager'.sys))

\* C28: last_stream_processed is 0 at first and changes only when the reader
\* has delivered a DATA, WND_INC or RST frame to a stream, to the id of that
\* frame; a frame whose delivery failed, and was answered with an RST, leaves
\* it as it was, and a GOAWAY the reader generates carries its value of that
\* moment
C28_LastStreamProcessed ==
    /\ [](DOMAIN st = {} => last_stream_processed = NoId)
    /\ [][last_stream_processed' # last_stream_processed =>
            /\ ReaderHandles
            /\ StreamFrame(HandledFrame)
            /\ last_stream_processed' = HandledFrame.id
            /\ NewSys = <<>>]_vars
    /\ [][ReaderTakes /\ StreamFrame(Head(wire_in)) /\ ~Head(wire_in).syn =>
            last_stream_processed' =
                IF send_to_stream(manager, st, Head(wire_in)).ok
                THEN Head(wire_in).id
                ELSE last_stream_processed]_vars
    /\ [][ReaderHandles /\ StreamFrame(HandledFrame) /\ rpc' = "read"
            /\ NewSys = <<>> =>
                last_stream_processed' = HandledFrame.id]_vars
    /\ [][\A k \in 1..Len(NewSys) :
            NewSys[k].typ = "GoAway" => NewSys[k].val = last_stream_processed]_vars

\* the reader has generated a GOAWAY that carries the id of the stream it had
\* delivered a frame to, after the delivery of a frame on another id had
\* failed
C28_Witness ==
    /\ Len(manager.sys) = 2
    /\ manager.sys[1].typ = "Rst"
    /\ manager.sys[1].id = StrayId
    /\ manager.sys[2].typ = "GoAway"
    /\ manager.sys[2].val = last_stream_processed
    /\ last_stream_processed \in DOMAIN st

\* the await points at which a task waits for something other than the lock
ReaderWaits == {"try_next", "accept_send", "sys_send"}
WriterWaits == {"select", "io_send"}

\* C29: the reader and the writer hold the manager's lock at none of the
\* points where they wait for the accept channel, the system channel or the
\* transport; so with the reader waiting on a full accept channel the writer
\* gets the lock for an open request, every open request the writer has taken
\* is answered, and a held lock is always released by a step of its holder
C29_NoWaitUnderLock ==
    /\ [](manager_lock = "reader" => reader_at \notin ReaderWaits)
    /\ [](manager_lock = "writer" => writer_at \notin WriterWaits)
    /\ [](reader_at = "accept_send" /\ accept_len = accept_queue_size
            /\ writer_at = "lock_open" => ENABLED LockForOpen)
    /\ [](manager_lock # "none" => ENABLED (CreateRemote(TRUE) \/ MarkFin \/ CreateLocal))
    /\ (writer_at = "lock_open" ~> writer_at = "create_stream")

\* the writer creates a local stream under the lock while the reader waits on
\* the full accept channel
C29_Witness ==
    /\ reader_at = "accept_send"
    /\ accept_len = accept_queue_size
    /\ manager_lock = "writer"
    /\ writer_at = "create_stream"
    /\ replies > 0

\* C30: the responder writes back the bytes of the ids it received and
\* nothing else, however they are split across reads; a read that returns no
\* data at the end of the stream is followed by no write; a read or a write
\* that fails ends the task
C30_ResponderEchoesExactly ==
    /\ [](IsPrefix(rs_out, rs_sent))
    /\ [](rs_pc = "read" /\ rs_buf = <<>> /\ rs_wire = <<>> /\ rs_io = "ok"
            => rs_out = rs_sent)
    /\ [][rs_pc = "read" /\ rs_buf = <<>> /\ rs_fin => rs_out' = rs_out]_vars
    /\ [][rs_pc # "done" /\ rs_pc' # rs_pc /\ rs_io = "err" => rs_pc' = "done"]_vars

\* C31: a write waits exactly while send_window is 0 and goes on once a
\* WND_INC has arrived; with the receiver reading on, a write of any size,
\* also one larger than the initial window, completes in the end: the sender
\* is never at window 0 with nothing on its way that leads to a WND_INC
C31_WriteCompletes ==
    /\ [](fc_todo > 0 => (ENABLED WriteStep <=> fc_send_window # 0))
    /\ [][fc_incs' # fc_incs /\ Len(fc_incs') < Len(fc_incs)
            => fc_send_window' > 0]_vars
    /\ [](fc_todo > 0 /\ fc_send_window = 0
            => fc_data # <<>> \/ fc_buf > 0 \/ fc_incs # <<>>)
    /\ (fc_todo > 0 ~> fc_todo = 0)

\* a write of more than the initial window has completed
C31_Witness ==
    /\ fc_todo = 0
    /\ fc_written > window
    /\ fc_data = <<>>
    /\ fc_buf = 0

\* C33: the reader ends with the GOAWAY frame it handles, and once it has
\* ended no frame is taken off the transport any more: no stream gets bytes
\* or window, no stream is created for the peer and nothing is added to the
\* accept queue
C33_GoAwayIsLastFrame ==
    /\ [][ReaderTakes /\ Head(wire_in).typ = "GoAway" => rpc' = "done"]_vars
    /\ [][rpc = "done" =>
            /\ rpc' = "done"
            /\ IsPrefix(wire_in, wire_in')
            /\ Len(acceptq') <= Len(acceptq)
            /\ \A id \in DOMAIN st' : id \in DOMAIN st
            /\ \A id \in DOMAIN st :
                 /\ Len(st'[id].buf) <= Len(st[id].buf)
                 /\ st'[id].send_window <= st[id].send_window
                 /\ st'[id].incs = st[id].incs]_vars

\* the reader has ended with a GOAWAY and the frames the peer sent after it,
\* a SYN among them, are still on the transport
C33_Witness ==
    /\ rpc = "done"
    /\ manager.session_error = "NoError"
    /\ \E k \in 1..Len(wire_in) : wire_in[k].syn

OpenSpec == Spec /\ WF_vars(WriterOpen) /\ WF_vars(OpenCancelled)

\* C35: every open() gets one result, a stream or an error: a request that
\* waits has no result yet, it leaves the wait with exactly one, no result
\* appears without a call, and under a fair scheduler no request waits for
\* ever, also when the writer ends with the request still queued
C35_OpenGetsOneResult ==
    /\ [](openpc = "sent" => openRes = "None")
    /\ [][openpc = "sent" /\ openpc' # "sent" =>
            openpc' = "idle" /\ openRes' # "None"]_vars
    /\ [][openpc # "sent" /\ openRes' # openRes =>
            \/ openpc' = "sent" /\ openRes' = "None"
            \/ wpc = "done" /\ openpc' = "idle" /\ openRes' = "SessionClosed"]_vars
    /\ (openpc = "sent" ~> openpc = "idle")

\* the writer has ended on a failed write while an open request is queued:
\* the request is the one OpenCancelled answers with SESSION_CLOSED
C35_Witness ==
    /\ wpc = "done"
    /\ openpc = "sent"
    /\ openRes = "None"
    /\ ENABLED OpenCancelled

\* the stream of the frame the reader handles has bytes, or has seen the end
\* of the peer's bytes without an error of its own
Delivered(S, f) ==
    /\ f.id \in DOMAIN S
    /\ \/ S[f.id].buf # <<>>
       \/ S[f.id].rd # <<>>
       \/ S[f.id].err = "None" /\ S[f.id].remote_write_closed

\* C36: for a SYN frame the reader registers the stream in the manager, then
\* pushes it to the accept queue, and only then delivers the frame's payload
\* and FIN: a stream enters the accept queue only registered, while the push
\* waits nothing of the frame is delivered, and a push that fails because the
\* accept half was dropped ends the reader with SESSION_CLOSED, the frame
\* undelivered
C36_SynOrder ==
    /\ [][Len(acceptq') > Len(acceptq) =>
            /\ ReaderTakes
            /\ Head(wire_in).syn
            /\ create_stream(manager, client, Head(wire_in).id).ok
            /\ acceptq' = Append(acceptq, Head(wire_in).id)
            /\ manager'.last_remote_id = Head(wire_in).id
            /\ Head(wire_in).id \in DOMAIN st']_vars
    /\ [](rpc = "accept_send" =>
            /\ rframe.syn
            /\ manager.last_remote_id = rframe.id
            /\ rframe.id \in DOMAIN st
            /\ ~Delivered(st, rframe))
    /\ [][ReaderHandles /\ HandledFrame.syn /\ ~Delivered(st, HandledFrame)
          /\ Delivered(st', HandledFrame) =>
            \/ rpc = "accept_send"
            \/ acceptq' = Append(acceptq, HandledFrame.id)]_vars
    /\ [][ReaderTakes /\ Head(wire_in).syn /\ accept_rx = "dropped"
          /\ create_stream(manager, client, Head(wire_in).id).ok =>
            /\ rpc' = "done"
            /\ manager'.session_error = "SessionClosed"
            /\ manager'.last_remote_id = Head(wire_in).id
            /\ acceptq' = acceptq
            /\ st'[Head(wire_in).id].buf = <<>>
            /\ last_stream_processed' = last_stream_processed
            /\ NewSys = <<>>]_vars

\* the accept half was dropped, and the reader has ended on a SYN frame with
\* payload: the stream is registered, it is not queued and holds no byte
C36_Witness ==
    /\ accept_rx = "dropped"
    /\ rpc = "done"
    /\ io_in = "open"
    /\ manager.session_error = "SessionClosed"
    /\ manager.last_remote_id \in DOMAIN st
    /\ st[manager.last_remote_id].buf = <<>>
    /\ acceptq = <<>>
    /\ last_stream_processed = NoId
    /\ wire_in = <<>>
    /\ manager.last_remote_id \in DOMAIN peer.streams
    /\ peer.streams[manager.last_remote_id].sent = 1

\* the scheduler runs the monitor when its timeout_at is ready, also with
\* Ok(None)
HbEndSpec ==
    /\ HbInit
    /\ [][HbNext]_vars
    /\ WF_vars(MonTimeout)
    /\ WF_vars(MonRecv)
    /\ WF_vars(MonEnd)

\* C37: the monitor ends exactly when the requester has exited and every
\* latency it queued has been passed to the callback: it ends in no other
\* state, that step invokes no callback, no callback is invoked after it, and
\* once the requester has exited the monitor does end
C37_MonitorEndsWithRequester ==
    /\ [][mon_pc # "done" /\ mon_pc' = "done" =>
            /\ rq_pc = "done"
            /\ mark = <<>>
            /\ cb_last' = cb_last]_vars
    /\ [][mon_pc = "done" => mon_pc' = "done" /\ cb_last' = cb_last /\ mark' = <<>>]_vars
    /\ [](mon_pc = "done" => rq_pc = "done" /\ mark = <<>>)
    /\ [][rq_pc = "done" /\ mark # <<>> /\ mark' # mark =>
            cb_last' = Head(mark) /\ mon_pc' = "wait"]_vars
    /\ (rq_pc = "done" ~> mon_pc = "done")

\* the requester exited with a latency still queued, the callback got it and
\* the monitor has ended, with no missed heartbeat reported
C37_Witness ==
    /\ rq_pc = "done"
    /\ mon_pc = "done"
    /\ mark = <<>>
    /\ cb_last = Latency
    /\ hb_io = "err"

\* the requester starts an exchange in this step
StartsExchange == rq_pc # "write" /\ rq_pc' = "write"

\* C38: dropping the HeartbeatCtl does not stop heartbeating: the drop leaves
\* the requester and the monitor where they are, the requester ends only on
\* an error of the stream or a wrong reply, from then on every exchange
\* starts with a tick of the ticker and every tick starts one, and the
\* monitor goes on with the durations stored last
C38_DroppedCtlKeepsBeating ==
    /\ [][ctl = "held" /\ ctl' = "dropped" =>
            /\ rq_pc' = rq_pc
            /\ mon_pc' = mon_pc
            /\ durations' = durations]_vars
    /\ [][ctl = "dropped" /\ rq_pc # "done" /\ rq_pc' = "done" =>
            \/ hb_io = "err"
            \/ rq_pc = "read" /\ echo # rq_id]_vars
    /\ [][ctl = "dropped" /\ on_demand = <<>> /\ StartsExchange =>
            /\ ticker = 0
            /\ ticker' = period
            /\ resp_chan' = "None"]_vars
    /\ [][ctl = "dropped" /\ ticker = 0 /\ ticker' # 0 => StartsExchange]_vars
    /\ [](ctl = "dropped" /\ rq_pc \in {"select", "tick"} /\ ticker = 0 =>
            ENABLED RqTick)
    /\ [][ctl = "dropped" =>
            /\ ctl' = "dropped"
            /\ durations' = durations
            /\ (deadline' > deadline => deadline' = NewDeadline(durations))]_vars

\* the HeartbeatCtl was dropped after an exchange; the requester found the
\* mailbox closed and waits for the next tick, the monitor waits too
C38_Witness ==
    /\ ctl = "dropped"
    /\ rq_pc = "tick"
    /\ ticker > 0
    /\ mon_pc = "wait"
    /\ cb_last = Latency

\* the monitor's deadline passes in this step: the callback gets latency 0
\* and the deadline is set anew
MonitorMisses ==
    /\ mon_pc = "wait"
    /\ mark = <<>>
    /\ deadline = 0
    /\ deadline' > 0

\* C39: a beat() that got its latency since the monitor last set its deadline
\* is not followed by a callback with latency 0 for that deadline
C39_NoMissAfterBeat == [][MonitorMisses => ~beat_done]_vars

\* C40: a connection for a tunnel whose listen the server has answered is
\* never dropped because accept_incoming looked the tunnel up before
\* start_tunnel had inserted it: every tunnel a connection was dropped for had
\* been inserted
C40_NoConnectionLostBeforeInsert == lost \cap listened \subseteq inserted

\* the heartbeat tasks; the monitor task, once woken by its deadline or by a
\* latency, runs in the end (tokio schedules every task that is woken)
HbSpec == HbInit /\ [][HbNext]_vars /\ WF_vars(MonTimeout) /\ WF_vars(MonRecv)

====
